---- MODULE Spec2Model ----
(***************************************************************************)
(* Model of byst's reference-counted buffer engine                         *)
(* (byst/src/buf/arc_buf.rs): Buffer, AtomicRefCount, MetaData, BufferRef, *)
(* Reclaim, ArcBuf, ArcBufMut and Writer.                                  *)
(*                                                                         *)
(* One allocation is modelled.  Its handles are kept in two bags (the live *)
(* ArcBufMut values and the live ArcBuf values); a Writer borrows one      *)
(* ArcBufMut, which is taken out of the bag for the time of the borrow.    *)
(* Every atomic operation on the reference-count word is one step; the     *)
(* deallocation that follows a decrement is a step of its own, so drops of *)
(* different threads interleave at the granularity of the atomics.         *)
(***************************************************************************)
EXTENDS Integers, Sequences, FiniteSets, Bags, TLC

(* ---- bounds ---- *)
MaxCap == 3        \* capacities 0..MaxCap are tried
MaxHandles == 3    \* live handles that hold a reference (a borrowed one included)
MaxHalves == 2     \* ArcBufMut halves of one allocation where the Writer is used

Uninit == 0 - 1    \* a MaybeUninit<u8> cell that was never written
WordModulus == 2 ^ 30  \* stand-in for the wrap of a usize (never reached by the code)

VARIABLES
    size,         \* Buffer::len(): length of the heap block (0: none allocated)
    word,         \* MetaData::ref_count, the AtomicUsize
    initialized,  \* MetaData::initialized
    mem,          \* the cells of the heap block
    deallocated,  \* number of calls of Buffer::deallocate that have run
    pendingFree,  \* drops whose atomic returned MustDrop(true), deallocate not yet run
    reclaim,      \* TRUE while the Reclaim handle is live
    muts,         \* bag of live ArcBufMut values (not borrowed by a Writer)
    bufs,         \* bag of live ArcBuf values
    writer,       \* <<>> or <<[buf, position]>>: the live Writer and its borrow
    last          \* the last operation: name, argument, receiver before/after, result

vars == <<size, word, initialized, mem, deallocated, pendingFree, reclaim,
          muts, bufs, writer, last>>

Max(a, b) == IF a >= b THEN a ELSE b

Range(f) == {f[i] : i \in DOMAIN f}

(* ---- AtomicRefCount ---- *)
\* mutant: the count is not shifted past the reclaim bit
AtomicRefCount_new_NoShift(ref_count, reclaimable) ==
    ref_count + (IF reclaimable THEN 1 ELSE 0)

AtomicRefCount_new(ref_count, reclaimable) ==
    ref_count * 2 + (IF reclaimable THEN 1 ELSE 0)

AtomicRefCount_increment(w) == (w + 2) % WordModulus

\* mutant: the reclaim bit is ignored when deciding to deallocate
AtomicRefCount_decrement_IgnoresReclaim(w) ==
    [value |-> (w + WordModulus - 2) % WordModulus,
     panic |-> ~(w >= 2),
     must_drop |-> w \div 2 = 1]

AtomicRefCount_decrement(w) ==
    [value |-> (w + WordModulus - 2) % WordModulus,
     panic |-> ~(w >= 2),
     must_drop |-> w = 2]

\* mutant: dropping the Reclaim never deallocates
AtomicRefCount_make_unreclaimable_NeverDrops(w) ==
    [value |-> w - (w % 2), must_drop |-> FALSE]

AtomicRefCount_make_unreclaimable(w) ==
    [value |-> w - (w % 2), must_drop |-> w = 1]

\* mutant: the exchange does not compare the count, only the reclaim bit
AtomicRefCount_try_reclaim_BitOnly(w) ==
    IF w % 2 = 1 THEN [value |-> w + 2, ok |-> TRUE] ELSE [value |-> w, ok |-> FALSE]

\* mutant: the exchange succeeds on 1 but stores no strong count
AtomicRefCount_try_reclaim_NoCount(w) ==
    IF w = 1 THEN [value |-> 1, ok |-> TRUE] ELSE [value |-> w, ok |-> FALSE]

AtomicRefCount_try_reclaim(w) ==
    IF w = 1 THEN [value |-> 3, ok |-> TRUE] ELSE [value |-> w, ok |-> FALSE]

\* mutant: the probe looks at the reclaim bit alone
AtomicRefCount_can_reclaim_BitOnly(w) == w % 2 = 1

AtomicRefCount_can_reclaim(w) == w = 1

(* ---- RefCount ---- *)
Static == [static |-> TRUE, ref_count |-> 0, reclaim |-> FALSE]

RefCount_from_atomic(w) ==
    [static |-> FALSE, ref_count |-> w \div 2, reclaim |-> (w % 2) # 0]

RefCount_is_static(rc) == rc.static

\* mutant: a Static snapshot counts as reclaimable
RefCount_can_be_reclaimed_StaticTrue(rc) == IF rc.static THEN TRUE ELSE rc.reclaim

RefCount_can_be_reclaimed(rc) == IF rc.static THEN FALSE ELSE rc.reclaim

Counted(ref_count, reclaimable) ==
    [static |-> FALSE, ref_count |-> ref_count, reclaim |-> reclaimable]

(* ---- Buffer ---- *)
\* a Buffer value is (meta_data non-null?, len); the block itself is the state
Buffer_zero_sized == [meta |-> FALSE, len |-> 0, word |-> 0]

\* mutant: no special case for size 0
Buffer_new_AlwaysAllocates(sz, ref_count, reclaimable) ==
    [meta |-> TRUE, len |-> sz, word |-> AtomicRefCount_new(ref_count, reclaimable)]

Buffer_new(sz, ref_count, reclaimable) ==
    IF sz = 0 THEN Buffer_zero_sized
    ELSE [meta |-> TRUE, len |-> sz,
          word |-> AtomicRefCount_new(ref_count, reclaimable)]

Buffer_ref_count(meta, w) ==
    IF ~meta THEN Static ELSE RefCount_from_atomic(w)

(* ---- BufferRef ---- *)
BufferRef_default == [meta |-> FALSE, start |-> 0, end |-> 0, tail |-> FALSE]

\* mutant: the first handle is the tail also when the buffer is zero-sized
BufferRef_from_buf_AlwaysTail(meta, len) ==
    [meta |-> meta, start |-> 0, end |-> len, tail |-> TRUE]

BufferRef_from_buf(meta, len) ==
    [meta |-> meta, start |-> 0, end |-> len, tail |-> len # 0]

BufferRef_len(self) == self.end - self.start

BufferRef_ref_count(self, w) == Buffer_ref_count(self.meta, w)

\* mutant: the clone does not increment the count
BufferRef_clone_NoIncrement(self, w) == [new |-> self, word |-> w]

BufferRef_clone(self, w) ==
    [new |-> self,
     word |-> IF self.meta THEN AtomicRefCount_increment(w) ELSE w]

\* mutant: dropping a handle leaves the count as it is
BufferRef_drop_NoDecrement(self, w) == [word |-> w, free |-> 0, panic |-> FALSE]

\* Drop for BufferRef: free = 1 when the decrement asks for Buffer::deallocate
BufferRef_drop(self, w) ==
    IF self.meta
    THEN LET d == AtomicRefCount_decrement(w)
         IN  [word |-> d.value,
              free |-> IF d.must_drop /\ ~d.panic THEN 1 ELSE 0,
              panic |-> d.panic]
    ELSE [word |-> w, free |-> 0, panic |-> FALSE]

\* mutant: the receiver keeps its start, so both halves cover the left one
BufferRef_split_at_KeepsStart(self, at, w) ==
    LET split_offset == at + self.start
    IN  IF ~(split_offset <= self.end)
        THEN [self |-> self, new |-> BufferRef_default, word |-> w, panic |-> TRUE]
        ELSE IF at = self.start
        THEN [self |-> self, new |-> BufferRef_default, word |-> w, panic |-> FALSE]
        ELSE IF at = self.end
        THEN [self |-> BufferRef_default, new |-> self, word |-> w, panic |-> FALSE]
        ELSE LET c == BufferRef_clone(self, w)
             IN  [self |-> self,
                  new |-> [c.new EXCEPT !.end = split_offset, !.tail = FALSE],
                  word |-> c.word, panic |-> FALSE]

\* mutant: the split-off left part keeps the tail flag of the handle it was cloned from
BufferRef_split_at_KeepsTail(self, at, w) ==
    LET split_offset == at + self.start
    IN  IF ~(split_offset <= self.end)
        THEN [self |-> self, new |-> BufferRef_default, word |-> w, panic |-> TRUE]
        ELSE IF at = self.start
        THEN [self |-> self, new |-> BufferRef_default, word |-> w, panic |-> FALSE]
        ELSE IF at = self.end
        THEN [self |-> BufferRef_default, new |-> self, word |-> w, panic |-> FALSE]
        ELSE LET c == BufferRef_clone(self, w)
             IN  [self |-> [self EXCEPT !.start = split_offset],
                  new |-> [c.new EXCEPT !.end = split_offset],
                  word |-> c.word, panic |-> FALSE]

\* mutant: the split-off left part is marked as the tail
BufferRef_split_at_LeftTail(self, at, w) ==
    LET split_offset == at + self.start
    IN  IF ~(split_offset <= self.end)
        THEN [self |-> self, new |-> BufferRef_default, word |-> w, panic |-> TRUE]
        ELSE IF at = self.start
        THEN [self |-> self, new |-> BufferRef_default, word |-> w, panic |-> FALSE]
        ELSE IF at = self.end
        THEN [self |-> BufferRef_default, new |-> self, word |-> w, panic |-> FALSE]
        ELSE LET c == BufferRef_clone(self, w)
             IN  [self |-> [self EXCEPT !.start = split_offset],
                  new |-> [c.new EXCEPT !.end = split_offset, !.tail = TRUE],
                  word |-> c.word, panic |-> FALSE]

BufferRef_split_at(self, at, w) ==
    LET split_offset == at + self.start
    IN  IF ~(split_offset <= self.end)
        THEN [self |-> self, new |-> BufferRef_default, word |-> w, panic |-> TRUE]
        ELSE IF at = self.start
        THEN [self |-> self, new |-> BufferRef_default, word |-> w, panic |-> FALSE]
        ELSE IF at = self.end
        THEN [self |-> BufferRef_default, new |-> self, word |-> w, panic |-> FALSE]
        ELSE LET c == BufferRef_clone(self, w)
             IN  [self |-> [self EXCEPT !.start = split_offset],
                  new |-> [c.new EXCEPT !.end = split_offset, !.tail = FALSE],
                  word |-> c.word, panic |-> FALSE]

\* mutant: an empty range is narrowed like any other, the handle keeps its reference
BufferRef_shrink_KeepsEmpty(self, s, e, w) ==
    LET new_start == self.start + s
        new_end == self.start + e
    IN  IF ~(new_start >= self.start /\ new_end <= self.end /\ new_start <= new_end)
        THEN [self |-> self, word |-> w, free |-> 0, panic |-> TRUE]
        ELSE [self |-> [self EXCEPT !.start = new_start, !.end = new_end],
              word |-> w, free |-> 0, panic |-> FALSE]

\* mutant: the end is taken as an index of the block and nothing is asserted
BufferRef_shrink_AbsoluteEnd(self, s, e, w) ==
    LET new_start == self.start + s
        new_end == e
    IN  IF new_start = new_end
        THEN LET d == BufferRef_drop(self, w)
             IN  [self |-> BufferRef_default, word |-> d.word, free |-> d.free,
                  panic |-> d.panic]
        ELSE [self |-> [self EXCEPT !.start = new_start, !.end = new_end],
              word |-> w, free |-> 0, panic |-> FALSE]

BufferRef_shrink(self, s, e, w) ==
    LET new_start == self.start + s
        new_end == self.start + e
    IN  IF ~(new_start >= self.start /\ new_end <= self.end /\ new_start <= new_end)
        THEN [self |-> self, word |-> w, free |-> 0, panic |-> TRUE]
        ELSE IF new_start = new_end
        THEN LET d == BufferRef_drop(self, w)
             IN  [self |-> BufferRef_default, word |-> d.word, free |-> d.free,
                  panic |-> d.panic]
        ELSE [self |-> [self EXCEPT !.start = new_start, !.end = new_end],
              word |-> w, free |-> 0, panic |-> FALSE]

\* mutant: the boundary is the end of the range for the tail as well
BufferRef_initialized_end_AlwaysEnd(self, init) ==
    [value |-> self.end, panic |-> FALSE]

BufferRef_initialized_end(self, init) ==
    IF self.tail
    THEN [value |-> init, panic |-> ~(init >= self.start /\ init <= self.end)]
    ELSE [value |-> self.end, panic |-> FALSE]

\* mutant: the cursor is set to the argument, also when that lowers it
BufferRef_set_initialized_to_NoMax(self, to0, init) ==
    LET to == self.start + to0
    IN  IF ~(to <= self.end)
        THEN [initialized |-> init, panic |-> TRUE]
        ELSE IF self.tail
        THEN IF ~(init >= self.start /\ init <= self.end)
             THEN [initialized |-> init, panic |-> TRUE]
             ELSE [initialized |-> to, panic |-> FALSE]
        ELSE [initialized |-> init, panic |-> FALSE]

BufferRef_set_initialized_to(self, to0, init) ==
    LET to == self.start + to0
    IN  IF ~(to <= self.end)
        THEN [initialized |-> init, panic |-> TRUE]
        ELSE IF self.tail
        THEN IF ~(init >= self.start /\ init <= self.end)
             THEN [initialized |-> init, panic |-> TRUE]
             ELSE [initialized |-> Max(init, to), panic |-> FALSE]
        ELSE [initialized |-> init, panic |-> FALSE]

\* mutant: no tail check, every handle moves the cursor to its own end
BufferRef_fully_initialize_Ungated(self, init, m) ==
    [initialized |-> self.end,
     mem |-> [i \in DOMAIN m |-> IF i > init /\ i <= self.end THEN 0 ELSE m[i]],
     panic |-> FALSE]

\* mutant: the whole range of the handle is zeroed, not only what follows the cursor
BufferRef_fully_initialize_FromStart(self, init, m) ==
    IF self.tail
    THEN IF ~(init >= self.start /\ init <= self.end)
         THEN [initialized |-> init, mem |-> m, panic |-> TRUE]
         ELSE [initialized |-> self.end,
               mem |-> [i \in DOMAIN m |->
                          IF i > self.start /\ i <= self.end THEN 0 ELSE m[i]],
               panic |-> FALSE]
    ELSE [initialized |-> init, mem |-> m, panic |-> FALSE]

BufferRef_fully_initialize(self, init, m) ==
    IF self.tail
    THEN IF ~(init >= self.start /\ init <= self.end)
         THEN [initialized |-> init, mem |-> m, panic |-> TRUE]
         ELSE [initialized |-> self.end,
               mem |-> [i \in DOMAIN m |->
                          IF i > init /\ i <= self.end THEN 0 ELSE m[i]],
               panic |-> FALSE]
    ELSE [initialized |-> init, mem |-> m, panic |-> FALSE]

(* ---- ArcBuf ---- *)
ArcBuf_len(self) == BufferRef_len(self.inner)

ArcBuf_ref_count(self, w) == BufferRef_ref_count(self.inner, w)

\* the cells [start, end) of the block, read as initialized bytes
ArcBuf_bytes(self, m) ==
    [i \in 1..BufferRef_len(self.inner) |-> m[self.inner.start + i]]

ArcBuf_clone(self, w) ==
    LET c == BufferRef_clone(self.inner, w)
    IN  [new |-> [inner |-> c.new], word |-> c.word]

(* ---- ArcBufMut ---- *)
ArcBufMut_default == [inner |-> BufferRef_default, filled |-> 0]

ArcBufMut_from_buffer(meta, len) ==
    [inner |-> BufferRef_from_buf(meta, len), filled |-> 0]

ArcBufMut_new(capacity) ==
    LET buf == Buffer_new(capacity, 1, FALSE)
    IN  [this |-> ArcBufMut_from_buffer(buf.meta, buf.len), word |-> buf.word,
         reclaim |-> FALSE]

ArcBufMut_new_reclaimable(capacity) ==
    LET buf == Buffer_new(capacity, 1, TRUE)
    IN  [this |-> ArcBufMut_from_buffer(buf.meta, buf.len), word |-> buf.word,
         reclaim |-> TRUE]

ArcBufMut_capacity(self) == BufferRef_len(self.inner)

ArcBufMut_len(self) == self.filled

ArcBufMut_ref_count(self, w) == BufferRef_ref_count(self.inner, w)

\* filled(): uninitialized()[..self.filled]; the slice index panics when
\* filled exceeds the length of the handle's range
ArcBufMut_filled(self, m) ==
    IF self.filled <= BufferRef_len(self.inner)
    THEN [panic |-> FALSE, bytes |-> [i \in 1..self.filled |-> m[self.inner.start + i]]]
    ELSE [panic |-> TRUE, bytes |-> <<>>]

\* initialized(): the bytes from start to the initialized boundary
ArcBufMut_initialized(self, init, m) ==
    LET end == BufferRef_initialized_end(self.inner, init)
    IN  IF end.panic
        THEN [panic |-> TRUE, bytes |-> <<>>]
        ELSE [panic |-> FALSE,
              bytes |-> [i \in 1..(end.value - self.inner.start) |-> m[self.inner.start + i]]]

\* mutant: freeze hands out the whole range without shrinking it to the filled part
ArcBufMut_freeze_NoShrink(self, w) ==
    [ret |-> <<[inner |-> self.inner]>>, word |-> w, free |-> 0, panic |-> FALSE]

\* freeze(mut self): a panic of shrink unwinds and drops self
ArcBufMut_freeze(self, w) ==
    LET s == BufferRef_shrink(self.inner, 0, self.filled, w)
        d == BufferRef_drop(self.inner, w)
    IN  IF s.panic
        THEN [ret |-> <<>>, word |-> d.word, free |-> d.free, panic |-> TRUE]
        ELSE [ret |-> <<[inner |-> s.self]>>, word |-> s.word, free |-> s.free,
              panic |-> FALSE]

\* the error values (IndexOutOfBounds of the range module, Full of the buf module)
IndexOutOfBounds(required, bounds) ==
    [kind |-> "IndexOutOfBounds", required |-> required, bounds |-> bounds]

Full(required, capacity) == [kind |-> "Full", required |-> required, capacity |-> capacity]

\* mutant: no early return for at = 0, the handle is split at offset 0
ArcBufMut_split_at_NoZeroCase(self, at, w) ==
    LET filled == self.filled
    IN  IF at = filled /\ at # 0
        THEN [self |-> ArcBufMut_default, ret |-> <<self>>, outcome |-> "ok", err |-> <<>>,
              word |-> w]
        ELSE IF at < filled \/ at = 0
        THEN LET s == BufferRef_split_at(self.inner, at, w)
             IN  IF s.panic
                 THEN [self |-> self, ret |-> <<>>, outcome |-> "panic", err |-> <<>>,
                       word |-> w]
                 ELSE [self |-> [inner |-> s.self, filled |-> filled - at],
                       ret |-> <<[inner |-> s.new, filled |-> at]>>,
                       outcome |-> "ok", err |-> <<>>, word |-> s.word]
        ELSE [self |-> self, ret |-> <<>>, outcome |-> "err",
              err |-> <<IndexOutOfBounds(at, <<0, filled>>)>>, word |-> w]

\* mutant: at = filled is split like any other offset instead of moving self out
ArcBufMut_split_at_NoMove(self, at, w) ==
    LET filled == self.filled
    IN  IF at = 0
        THEN [self |-> self, ret |-> <<ArcBufMut_default>>, outcome |-> "ok", err |-> <<>>,
              word |-> w]
        ELSE IF at <= filled
        THEN LET s == BufferRef_split_at(self.inner, at, w)
             IN  IF s.panic
                 THEN [self |-> self, ret |-> <<>>, outcome |-> "panic", err |-> <<>>,
                       word |-> w]
                 ELSE [self |-> [inner |-> s.self, filled |-> filled - at],
                       ret |-> <<[inner |-> s.new, filled |-> at]>>,
                       outcome |-> "ok", err |-> <<>>, word |-> s.word]
        ELSE [self |-> self, ret |-> <<>>, outcome |-> "err",
              err |-> <<IndexOutOfBounds(at, <<0, filled>>)>>, word |-> w]

\* mutant: an offset past the filled length is clamped to it
ArcBufMut_split_at_Clamps(self, at, w) ==
    LET filled == self.filled
    IN  IF at = 0
        THEN [self |-> self, ret |-> <<ArcBufMut_default>>, outcome |-> "ok", err |-> <<>>,
              word |-> w]
        ELSE IF at >= filled
        THEN [self |-> ArcBufMut_default, ret |-> <<self>>, outcome |-> "ok", err |-> <<>>,
              word |-> w]
        ELSE LET s == BufferRef_split_at(self.inner, at, w)
             IN  IF s.panic
                 THEN [self |-> self, ret |-> <<>>, outcome |-> "panic", err |-> <<>>,
                       word |-> w]
                 ELSE [self |-> [inner |-> s.self, filled |-> filled - at],
                       ret |-> <<[inner |-> s.new, filled |-> at]>>,
                       outcome |-> "ok", err |-> <<>>, word |-> s.word]

\* mutant: any offset inside the capacity is split, filled or not
ArcBufMut_split_at_AnyOffset(self, at, w) ==
    LET filled == self.filled
    IN  IF at = 0
        THEN [self |-> self, ret |-> <<ArcBufMut_default>>, outcome |-> "ok", err |-> <<>>,
              word |-> w]
        ELSE IF at = filled
        THEN [self |-> ArcBufMut_default, ret |-> <<self>>, outcome |-> "ok", err |-> <<>>,
              word |-> w]
        ELSE IF at < ArcBufMut_capacity(self)
        THEN LET s == BufferRef_split_at(self.inner, at, w)
             IN  IF s.panic
                 THEN [self |-> self, ret |-> <<>>, outcome |-> "panic", err |-> <<>>,
                       word |-> w]
                 ELSE [self |-> [inner |-> s.self, filled |-> Max(filled - at, 0)],
                       ret |-> <<[inner |-> s.new, filled |-> at]>>,
                       outcome |-> "ok", err |-> <<>>, word |-> s.word]
        ELSE [self |-> self, ret |-> <<>>, outcome |-> "err",
              err |-> <<IndexOutOfBounds(at, <<0, filled>>)>>, word |-> w]

ArcBufMut_split_at(self, at, w) ==
    LET filled == self.filled
    IN  IF at = 0
        THEN [self |-> self, ret |-> <<ArcBufMut_default>>, outcome |-> "ok", err |-> <<>>,
              word |-> w]
        ELSE IF at = filled
        THEN [self |-> ArcBufMut_default, ret |-> <<self>>, outcome |-> "ok", err |-> <<>>,
              word |-> w]
        ELSE IF at < filled
        THEN LET s == BufferRef_split_at(self.inner, at, w)
             IN  IF s.panic
                 THEN [self |-> self, ret |-> <<>>, outcome |-> "panic", err |-> <<>>,
                       word |-> w]
                 ELSE [self |-> [inner |-> s.self, filled |-> filled - at],
                       ret |-> <<[inner |-> s.new, filled |-> at]>>,
                       outcome |-> "ok", err |-> <<>>, word |-> s.word]
        ELSE [self |-> self, ret |-> <<>>, outcome |-> "err",
              err |-> <<IndexOutOfBounds(at, <<0, filled>>)>>, word |-> w]

\* mutant: the bound is the capacity of the handle, not its initialized boundary
ArcBufMut_set_filled_to_ToCapacity(self, to, init) ==
    IF ~(to <= self.inner.end - self.inner.start)
    THEN [self |-> self, panic |-> TRUE]
    ELSE [self |-> [self EXCEPT !.filled = to], panic |-> FALSE]

\* mutant: filled is only ever raised
ArcBufMut_set_filled_to_OnlyRaises(self, to, init) ==
    LET end == BufferRef_initialized_end(self.inner, init)
    IN  IF end.panic \/ ~(to <= end.value - self.inner.start)
        THEN [self |-> self, panic |-> TRUE]
        ELSE [self |-> [self EXCEPT !.filled = IF to > self.filled THEN to ELSE self.filled],
              panic |-> FALSE]

ArcBufMut_set_filled_to(self, to, init) ==
    LET end == BufferRef_initialized_end(self.inner, init)
    IN  IF end.panic \/ ~(to <= end.value - self.inner.start)
        THEN [self |-> self, panic |-> TRUE]
        ELSE [self |-> [self EXCEPT !.filled = to], panic |-> FALSE]

ArcBufMut_fully_initialize(self, init, m) ==
    BufferRef_fully_initialize(self.inner, init, m)

\* mutant: clear gives up the range as well
ArcBufMut_clear_DropsRange(self) ==
    [inner |-> [self.inner EXCEPT !.end = self.inner.start], filled |-> 0]

ArcBufMut_clear(self) == [self EXCEPT !.filled = 0]

(* ---- Reclaim ---- *)
\* mutant: the reclaimed handle is not marked as the tail
Reclaim_try_reclaim_NotTail(sz, w) ==
    IF sz = 0
    THEN [ret |-> <<ArcBufMut_default>>, word |-> w]
    ELSE LET r == AtomicRefCount_try_reclaim(w)
         IN  IF r.ok
             THEN [ret |-> <<[inner |-> [meta |-> TRUE, start |-> 0, end |-> sz,
                                         tail |-> FALSE],
                              filled |-> 0]>>,
                   word |-> r.value]
             ELSE [ret |-> <<>>, word |-> r.value]

\* sz = 0: the Reclaim's meta_data pointer is null
Reclaim_try_reclaim(sz, w) ==
    IF sz = 0
    THEN [ret |-> <<ArcBufMut_default>>, word |-> w]
    ELSE LET r == AtomicRefCount_try_reclaim(w)
         IN  IF r.ok
             THEN [ret |-> <<[inner |-> [meta |-> TRUE, start |-> 0, end |-> sz,
                                         tail |-> TRUE],
                              filled |-> 0]>>,
                   word |-> r.value]
             ELSE [ret |-> <<>>, word |-> r.value]

Reclaim_can_reclaim(sz, w) ==
    IF sz = 0 THEN TRUE ELSE AtomicRefCount_can_reclaim(w)

Reclaim_ref_count(sz, w) == Buffer_ref_count(sz # 0, w)

Reclaim_drop(sz, w) ==
    IF sz # 0
    THEN LET r == AtomicRefCount_make_unreclaimable(w)
         IN  [word |-> r.value, free |-> IF r.must_drop THEN 1 ELSE 0]
    ELSE [word |-> w, free |-> 0]

(* ---- Writer ---- *)
Writer_new(buf) == [buf |-> buf, position |-> 0]

\* mutant: the closure is handed the cells from offset position of the
\* allocation, not of the handle's range
Writer_fill_with_Absolute(self, length, data, init, m) ==
    LET end == self.position + length
        b == self.buf
        written == [i \in DOMAIN m |->
                      IF i > self.position /\ i <= end
                      THEN data[i - self.position] ELSE m[i]]
        s == BufferRef_set_initialized_to(b.inner, end, init)
    IN  IF end <= ArcBufMut_capacity(b)
        THEN IF s.panic
             THEN [self |-> self, initialized |-> init, mem |-> written,
                   outcome |-> "panic", err |-> <<>>]
             ELSE [self |-> [buf |-> [b EXCEPT !.filled = Max(b.filled, end)],
                             position |-> end],
                   initialized |-> s.initialized, mem |-> written, outcome |-> "ok",
                   err |-> <<>>]
        ELSE [self |-> self, initialized |-> init, mem |-> m, outcome |-> "err",
              err |-> <<Full(length, ArcBufMut_capacity(b))>>]

\* mutant: filled is set to the end of the write, also when that lowers it
Writer_fill_with_NoFilledMax(self, length, data, init, m) ==
    LET end == self.position + length
        b == self.buf
        written == [i \in DOMAIN m |->
                      IF i > b.inner.start + self.position /\ i <= b.inner.start + end
                      THEN data[i - b.inner.start - self.position] ELSE m[i]]
        s == BufferRef_set_initialized_to(b.inner, end, init)
    IN  IF end <= ArcBufMut_capacity(b)
        THEN IF s.panic
             THEN [self |-> self, initialized |-> init, mem |-> written,
                   outcome |-> "panic", err |-> <<>>]
             ELSE [self |-> [buf |-> [b EXCEPT !.filled = end], position |-> end],
                   initialized |-> s.initialized, mem |-> written, outcome |-> "ok",
                   err |-> <<>>]
        ELSE [self |-> self, initialized |-> init, mem |-> m, outcome |-> "err",
              err |-> <<Full(length, ArcBufMut_capacity(b))>>]

\* fill_with(length, f): data[i] is the value f leaves in cell position + i
Writer_fill_with(self, length, data, init, m) ==
    LET end == self.position + length
        b == self.buf
        written == [i \in DOMAIN m |->
                      IF i > b.inner.start + self.position /\ i <= b.inner.start + end
                      THEN data[i - b.inner.start - self.position] ELSE m[i]]
        s == BufferRef_set_initialized_to(b.inner, end, init)
    IN  IF end <= ArcBufMut_capacity(b)
        THEN IF s.panic
             THEN [self |-> self, initialized |-> init, mem |-> written,
                   outcome |-> "panic", err |-> <<>>]
             ELSE [self |-> [buf |-> [b EXCEPT !.filled = Max(b.filled, end)],
                             position |-> end],
                   initialized |-> s.initialized, mem |-> written, outcome |-> "ok",
                   err |-> <<>>]
        ELSE [self |-> self, initialized |-> init, mem |-> m, outcome |-> "err",
              err |-> <<Full(length, ArcBufMut_capacity(b))>>]

Writer_extend(self, with, init, m) ==
    Writer_fill_with(self, Len(with), with, init, m)

Writer_advance(self, by, init, m) ==
    LET already_filled == self.buf.filled - self.position
        cur(i) == m[self.buf.inner.start + self.position + i]
    IN  IF by > already_filled
        THEN Writer_fill_with(self, by,
                 [i \in 1..by |-> IF i > already_filled THEN 0 ELSE cur(i)], init, m)
        ELSE [self |-> [self EXCEPT !.position = self.position + by],
              initialized |-> init, mem |-> m, outcome |-> "ok", err |-> <<>>]

Writer_remaining(self) == self.buf.filled - self.position

\* the error value of the io module
IoFull(written, requested, remaining) ==
    [kind |-> "io::Full", written |-> written, requested |-> requested,
     remaining |-> remaining]

\* filled_mut(): uninitialized_mut()[..filled], a slice index that panics when
\* filled is past the length of the range
ArcBufMut_filled_mut(self) ==
    IF self.filled <= BufferRef_len(self.inner)
    THEN [panic |-> FALSE, first |-> self.inner.start + 1,
          last |-> self.inner.start + self.filled]
    ELSE [panic |-> TRUE, first |-> 1, last |-> 0]

\* view_mut(length), and the caller storing v in every byte of the view it got
Writer_view_mut(self, length, v, m) ==
    IF self.position + length <= self.buf.filled
    THEN LET f == ArcBufMut_filled_mut(self.buf)
             lo == f.first + self.position
         IN  IF f.panic
             THEN [self |-> self, mem |-> m, outcome |-> "panic", err |-> <<>>]
             ELSE [self |-> [self EXCEPT !.position = self.position + length],
                   mem |-> [i \in DOMAIN m |->
                              IF i >= lo /\ i < lo + length THEN v ELSE m[i]],
                   outcome |-> "ok", err |-> <<>>]
    ELSE [self |-> self, mem |-> m, outcome |-> "err",
          err |-> <<IoFull(0, length, self.buf.filled - self.position)>>]

\* peek_view_mut(length): view_mut without the move of the position
Writer_peek_view_mut(self, length, v, m) ==
    IF self.position + length <= self.buf.filled
    THEN LET f == ArcBufMut_filled_mut(self.buf)
             lo == f.first + self.position
         IN  IF f.panic
             THEN [self |-> self, mem |-> m, outcome |-> "panic", err |-> <<>>]
             ELSE [self |-> self,
                   mem |-> [i \in DOMAIN m |->
                              IF i >= lo /\ i < lo + length THEN v ELSE m[i]],
                   outcome |-> "ok", err |-> <<>>]
    ELSE [self |-> self, mem |-> m, outcome |-> "err",
          err |-> <<IoFull(0, length, self.buf.filled - self.position)>>]

\* peek_rest_mut(): filled_mut()[position..], a slice index that panics when
\* position is past filled; the caller stores v in every byte of it
Writer_peek_rest_mut(self, v, m) ==
    LET f == ArcBufMut_filled_mut(self.buf)
        lo == f.first + self.position
    IN  IF f.panic \/ self.position > self.buf.filled
        THEN [self |-> self, mem |-> m, outcome |-> "panic", err |-> <<>>]
        ELSE [self |-> self,
              mem |-> [i \in DOMAIN m |-> IF i >= lo /\ i <= f.last THEN v ELSE m[i]],
              outcome |-> "ok", err |-> <<>>]

\* peek_chunk_mut(): the rest of the filled part when there is one; the caller
\* stores v in every byte of it
Writer_peek_chunk_mut(self, v, m) ==
    IF self.position < self.buf.filled
    THEN LET r == Writer_peek_rest_mut(self, v, m)
         IN  [r EXCEPT !.outcome = IF r.outcome = "ok" THEN "some" ELSE r.outcome]
    ELSE [self |-> self, mem |-> m, outcome |-> "none", err |-> <<>>]

\* rest_mut(): peek_rest_mut and the position moved by the length of the slice
Writer_rest_mut(self, v, m) ==
    LET r == Writer_peek_rest_mut(self, v, m)
    IN  IF r.outcome = "ok"
        THEN [r EXCEPT !.self = [self EXCEPT !.position = self.buf.filled]]
        ELSE r

\* Range::indices_checked_in(lo, hi) of the range s..e: the indices moved by
\* lo, accepted when they lie in order within lo..hi
Range_indices_checked_in(s, e, lo, hi) ==
    IF s <= e /\ lo + e <= hi
    THEN [ok |-> TRUE, start |-> lo + s, end |-> lo + e]
    ELSE [ok |-> FALSE, start |-> 0, end |-> 0]

\* mutant: the view is a plain clone, the range is not narrowed
ArcBuf_view_WholeRange(self, s, e, w) ==
    LET r == Range_indices_checked_in(s, e, 0, ArcBuf_len(self))
    IN  IF r.ok
        THEN LET c == ArcBuf_clone(self, w)
             IN  [ret |-> <<c.new>>, word |-> c.word, free |-> 0, outcome |-> "ok"]
        ELSE [ret |-> <<>>, word |-> w, free |-> 0, outcome |-> "err"]

\* Buf::view(range): the range is checked against 0..len, then clone and shrink
ArcBuf_view(self, s0, e0, w) ==
    LET r == Range_indices_checked_in(s0, e0, 0, ArcBuf_len(self))
        s == r.start
        e == r.end
    IN
    IF r.ok
    THEN LET c == ArcBuf_clone(self, w)
             k == BufferRef_shrink(c.new.inner, s, e, c.word)
         IN  [ret |-> <<[inner |-> k.self]>>, word |-> k.word, free |-> k.free,
              outcome |-> "ok"]
    ELSE [ret |-> <<>>, word |-> w, free |-> 0, outcome |-> "err"]

\* the error of a sequential read
End(requested, read, remaining) ==
    [requested |-> requested, read |-> read, remaining |-> remaining]

\* mutant: the view is taken but the receiver is not moved past it
ArcBuf_BufReader_view_NoAdvance(self, length, w) ==
    LET v == ArcBuf_view(self, 0, length, w)
    IN  IF v.outcome = "err"
        THEN [self |-> self, ret |-> <<>>, word |-> w, free |-> 0, outcome |-> "err",
              err |-> <<End(length, 0, ArcBuf_len(self))>>]
        ELSE [self |-> self, ret |-> v.ret, word |-> v.word, free |-> v.free,
              outcome |-> "ok", err |-> <<>>]

\* BufReader::view(length): Buf::view(0..length), then the receiver is shrunk to
\* what follows
ArcBuf_BufReader_view(self, length, w) ==
    LET v == ArcBuf_view(self, 0, length, w)
    IN  IF v.outcome = "err"
        THEN [self |-> self, ret |-> <<>>, word |-> w, free |-> 0, outcome |-> "err",
              err |-> <<End(length, 0, ArcBuf_len(self))>>]
        ELSE LET k == BufferRef_shrink(self.inner, length, ArcBuf_len(self), v.word)
             IN  [self |-> [inner |-> k.self], ret |-> v.ret, word |-> k.word,
                  free |-> v.free + k.free,
                  outcome |-> IF k.panic THEN "panic" ELSE "ok", err |-> <<>>]

\* BufReader::rest(): std::mem::take, the receiver becomes the default
ArcBuf_rest(self) == [self |-> [inner |-> BufferRef_default], ret |-> <<self>>]

\* BufReader::advance(by)
ArcBuf_advance(self, by, w) ==
    IF by <= ArcBuf_len(self)
    THEN LET k == BufferRef_shrink(self.inner, by, ArcBuf_len(self), w)
         IN  [self |-> [inner |-> k.self], word |-> k.word, free |-> k.free,
              outcome |-> IF k.panic THEN "panic" ELSE "ok", err |-> <<>>]
    ELSE [self |-> self, word |-> w, free |-> 0, outcome |-> "err",
          err |-> <<End(by, 0, ArcBuf_len(self))>>]

(* ---- the state machine ---- *)
\* the slices given to Writer::extend
ExtendInputs == {<<>>, <<1>>, <<1, 1>>}

Handles == BagCardinality(muts) + BagCardinality(bufs) + Len(writer)

One(h) == SetToBag({h})

\* The caller keeps a returned or left-over value unless it is the empty default
\* (null meta_data, empty range, nothing filled): that one it drops at once, which
\* touches no state (Drop for BufferRef does nothing when meta_data is null).
KeepMut(b) == IF b = ArcBufMut_default THEN EmptyBag ELSE One(b)

KeepBuf(b) == IF b.inner = BufferRef_default THEN EmptyBag ELSE One(b)

\* the record of an operation (arg: its arguments, as a sequence); word and
\* initialized are the values before it
Op(name, outcome, arg, pre, post, ret) ==
    [op |-> name, outcome |-> outcome, arg |-> arg, pre |-> pre, post |-> post,
     ret |-> ret, err |-> <<>>, word |-> word, initialized |-> initialized]

\* the record of an operation that can return an error value
OpErr(name, outcome, arg, pre, post, ret, err) ==
    [Op(name, outcome, arg, pre, post, ret) EXCEPT !.err = err]

Init ==
    \E c \in 0..MaxCap, r \in BOOLEAN :
        LET n == IF r THEN ArcBufMut_new_reclaimable(c) ELSE ArcBufMut_new(c)
        IN  /\ size = c
            /\ word = n.word
            /\ initialized = 0
            /\ mem = [i \in 1..c |-> Uninit]
            /\ deallocated = 0
            /\ pendingFree = 0
            /\ reclaim = n.reclaim
            /\ muts = One(n.this)
            /\ bufs = EmptyBag
            /\ writer = <<>>
            /\ last = [op |-> IF r THEN "new_reclaimable" ELSE "new", outcome |-> "ok",
                       arg |-> <<c>>, pre |-> <<>>, post |-> <<>>, ret |-> <<n.this>>,
                       err |-> <<>>, word |-> 0, initialized |-> 0]

\* Buffer::deallocate, run by the thread whose atomic returned MustDrop(true)
Deallocate ==
    /\ pendingFree > 0
    /\ size # 0
    /\ deallocated' = deallocated + 1
    /\ pendingFree' = pendingFree - 1
    /\ last' = Op("deallocate", "ok", <<>>, <<>>, <<>>, <<>>)
    /\ UNCHANGED <<size, word, initialized, mem, reclaim, muts, bufs, writer>>

MutDrop(b) ==
    LET d == BufferRef_drop(b.inner, word)
    IN  /\ muts' = muts (-) One(b)
        /\ word' = d.word
        /\ pendingFree' = pendingFree + d.free
        /\ last' = Op("drop_mut", IF d.panic THEN "panic" ELSE "ok", <<>>, <<b>>, <<>>, <<>>)
        /\ UNCHANGED <<size, initialized, mem, deallocated, reclaim, bufs, writer>>

BufDrop(b) ==
    LET d == BufferRef_drop(b.inner, word)
    IN  /\ bufs' = bufs (-) One(b)
        /\ word' = d.word
        /\ pendingFree' = pendingFree + d.free
        /\ last' = Op("drop_buf", IF d.panic THEN "panic" ELSE "ok", <<>>, <<b>>, <<>>, <<>>)
        /\ UNCHANGED <<size, initialized, mem, deallocated, reclaim, muts, writer>>

BufClone(b) ==
    LET c == ArcBuf_clone(b, word)
    IN  /\ Handles < MaxHandles
        /\ bufs' = bufs (+) One(c.new)
        /\ word' = c.word
        /\ last' = Op("clone", "ok", <<>>, <<b>>, <<b>>, <<c.new>>)
        /\ UNCHANGED <<size, initialized, mem, deallocated, pendingFree, reclaim, muts,
                       writer>>

BufView(b, s, e) ==
    LET v == ArcBuf_view(b, s, e, word)
    IN  /\ Handles < MaxHandles
        /\ bufs' = IF v.ret = <<>> THEN bufs ELSE bufs (+) KeepBuf(v.ret[1])
        /\ word' = v.word
        /\ pendingFree' = pendingFree + v.free
        /\ last' = Op("view", v.outcome, <<s, e>>, <<b>>, <<b>>, v.ret)
        /\ UNCHANGED <<size, initialized, mem, deallocated, reclaim, muts, writer>>

BufReaderView(b, length) ==
    LET r == ArcBuf_BufReader_view(b, length, word)
    IN  /\ Handles < MaxHandles
        /\ bufs' = ((bufs (-) One(b)) (+) KeepBuf(r.self))
                      (+) (IF r.ret = <<>> THEN EmptyBag ELSE KeepBuf(r.ret[1]))
        /\ word' = r.word
        /\ pendingFree' = pendingFree + r.free
        /\ last' = OpErr("reader_view", r.outcome, <<length>>, <<b>>, <<r.self>>, r.ret,
                         r.err)
        /\ UNCHANGED <<size, initialized, mem, deallocated, reclaim, muts, writer>>

BufRest(b) ==
    LET r == ArcBuf_rest(b)
    IN  /\ bufs' = ((bufs (-) One(b)) (+) KeepBuf(r.self)) (+) KeepBuf(r.ret[1])
        /\ last' = Op("rest", "ok", <<>>, <<b>>, <<r.self>>, r.ret)
        /\ UNCHANGED <<size, word, initialized, mem, deallocated, pendingFree, reclaim,
                       muts, writer>>

BufAdvance(b, by) ==
    LET r == ArcBuf_advance(b, by, word)
    IN  /\ bufs' = (bufs (-) One(b)) (+) KeepBuf(r.self)
        /\ word' = r.word
        /\ pendingFree' = pendingFree + r.free
        /\ last' = OpErr("reader_advance", r.outcome, <<by>>, <<b>>, <<r.self>>, <<>>,
                         r.err)
        /\ UNCHANGED <<size, initialized, mem, deallocated, reclaim, muts, writer>>

MutFreeze(b) ==
    LET f == ArcBufMut_freeze(b, word)
    IN  /\ muts' = muts (-) One(b)
        /\ bufs' = IF f.ret = <<>> THEN bufs ELSE bufs (+) KeepBuf(f.ret[1])
        /\ word' = f.word
        /\ pendingFree' = pendingFree + f.free
        /\ last' = Op("freeze", IF f.panic THEN "panic" ELSE "ok", <<>>, <<b>>, <<>>, f.ret)
        /\ UNCHANGED <<size, initialized, mem, deallocated, reclaim, writer>>

MutSplitAt(b, at) ==
    LET r == ArcBufMut_split_at(b, at, word)
    IN  /\ Handles < MaxHandles
        /\ muts' = IF r.ret = <<>> THEN muts
                   ELSE ((muts (-) One(b)) (+) KeepMut(r.self)) (+) KeepMut(r.ret[1])
        /\ word' = r.word
        /\ last' = OpErr("split_at", r.outcome, <<at>>, <<b>>, <<r.self>>, r.ret, r.err)
        /\ UNCHANGED <<size, initialized, mem, deallocated, pendingFree, reclaim, bufs,
                       writer>>

MutSetFilledTo(b, to) ==
    LET r == ArcBufMut_set_filled_to(b, to, initialized)
    IN  /\ muts' = (muts (-) One(b)) (+) One(r.self)
        /\ last' = Op("set_filled_to", IF r.panic THEN "panic" ELSE "ok", <<to>>, <<b>>,
                      <<r.self>>, <<>>)
        /\ UNCHANGED <<size, word, initialized, mem, deallocated, pendingFree, reclaim,
                       bufs, writer>>

MutFullyInitialize(b) ==
    LET r == ArcBufMut_fully_initialize(b, initialized, mem)
    IN  /\ initialized' = r.initialized
        /\ mem' = r.mem
        /\ last' = Op("fully_initialize", IF r.panic THEN "panic" ELSE "ok", <<>>, <<b>>,
                      <<b>>, <<>>)
        /\ UNCHANGED <<size, word, deallocated, pendingFree, reclaim, muts, bufs, writer>>

MutClear(b) ==
    LET c == ArcBufMut_clear(b)
    IN  /\ muts' = (muts (-) One(b)) (+) One(c)
        /\ last' = Op("clear", "ok", <<>>, <<b>>, <<c>>, <<>>)
        /\ UNCHANGED <<size, word, initialized, mem, deallocated, pendingFree, reclaim,
                       bufs, writer>>

TryReclaim ==
    LET r == Reclaim_try_reclaim(size, word)
    IN  /\ reclaim
        /\ Handles < MaxHandles
        /\ muts' = IF r.ret = <<>> THEN muts ELSE muts (+) KeepMut(r.ret[1])
        /\ word' = r.word
        /\ last' = Op("try_reclaim", IF r.ret = <<>> THEN "none" ELSE "some", <<>>, <<>>,
                      <<>>, r.ret)
        /\ UNCHANGED <<size, initialized, mem, deallocated, pendingFree, reclaim, bufs,
                       writer>>

ReclaimDrop ==
    LET d == Reclaim_drop(size, word)
    IN  /\ reclaim
        /\ reclaim' = FALSE
        /\ word' = d.word
        /\ pendingFree' = pendingFree + d.free
        /\ last' = Op("drop_reclaim", "ok", <<>>, <<>>, <<>>, <<>>)
        /\ UNCHANGED <<size, initialized, mem, deallocated, muts, bufs, writer>>

WriterNew(b) ==
    /\ writer = <<>>
    /\ writer' = <<Writer_new(b)>>
    /\ muts' = muts (-) One(b)
    /\ last' = Op("writer", "ok", <<>>, <<b>>, <<b>>, <<>>)
    /\ UNCHANGED <<size, word, initialized, mem, deallocated, pendingFree, reclaim, bufs>>

\* the Writer goes out of scope: the borrow of its ArcBufMut ends
WriterDrop ==
    /\ writer # <<>>
    /\ writer' = <<>>
    /\ muts' = muts (+) One(writer[1].buf)
    /\ last' = Op("drop_writer", "ok", <<>>, <<writer[1].buf>>, <<writer[1].buf>>, <<>>)
    /\ UNCHANGED <<size, word, initialized, mem, deallocated, pendingFree, reclaim, bufs>>

WriterExtend(with) ==
    /\ writer # <<>>
    /\ LET r == Writer_extend(writer[1], with, initialized, mem)
       IN  /\ writer' = <<r.self>>
           /\ initialized' = r.initialized
           /\ mem' = r.mem
           /\ last' = OpErr("extend", r.outcome, with, <<writer[1]>>, <<r.self>>, <<>>,
                            r.err)
    /\ UNCHANGED <<size, word, deallocated, pendingFree, reclaim, muts, bufs>>

WriterAdvance(by) ==
    /\ writer # <<>>
    /\ LET r == Writer_advance(writer[1], by, initialized, mem)
       IN  /\ writer' = <<r.self>>
           /\ initialized' = r.initialized
           /\ mem' = r.mem
           /\ last' = OpErr("advance", r.outcome, <<by>>, <<writer[1]>>, <<r.self>>, <<>>,
                            r.err)
    /\ UNCHANGED <<size, word, deallocated, pendingFree, reclaim, muts, bufs>>

\* the bytes a caller stores through the slice view_mut returned
ViewMutInputs == {1}

WriterViewMut(length, v) ==
    /\ writer # <<>>
    /\ LET r == Writer_view_mut(writer[1], length, v, mem)
       IN  /\ writer' = <<r.self>>
           /\ mem' = r.mem
           /\ last' = OpErr("view_mut", r.outcome, <<length, v>>, <<writer[1]>>, <<r.self>>,
                            <<>>, r.err)
    /\ UNCHANGED <<size, word, initialized, deallocated, pendingFree, reclaim, muts, bufs>>

WriterPeekViewMut(length, v) ==
    /\ writer # <<>>
    /\ LET r == Writer_peek_view_mut(writer[1], length, v, mem)
       IN  /\ writer' = <<r.self>>
           /\ mem' = r.mem
           /\ last' = OpErr("peek_view_mut", r.outcome, <<length, v>>, <<writer[1]>>,
                            <<r.self>>, <<>>, r.err)
    /\ UNCHANGED <<size, word, initialized, deallocated, pendingFree, reclaim, muts, bufs>>

WriterRestMut(v) ==
    /\ writer # <<>>
    /\ LET r == Writer_rest_mut(writer[1], v, mem)
       IN  /\ writer' = <<r.self>>
           /\ mem' = r.mem
           /\ last' = Op("rest_mut", r.outcome, <<v>>, <<writer[1]>>, <<r.self>>, <<>>)
    /\ UNCHANGED <<size, word, initialized, deallocated, pendingFree, reclaim, muts, bufs>>

WriterPeekChunkMut(v) ==
    /\ writer # <<>>
    /\ LET r == Writer_peek_chunk_mut(writer[1], v, mem)
       IN  /\ writer' = <<r.self>>
           /\ mem' = r.mem
           /\ last' = Op("peek_chunk_mut", r.outcome, <<v>>, <<writer[1]>>, <<r.self>>, <<>>)
    /\ UNCHANGED <<size, word, initialized, deallocated, pendingFree, reclaim, muts, bufs>>

WriterPeekRestMut(v) ==
    /\ writer # <<>>
    /\ LET r == Writer_peek_rest_mut(writer[1], v, mem)
       IN  /\ writer' = <<r.self>>
           /\ mem' = r.mem
           /\ last' = Op("peek_rest_mut", r.outcome, <<v>>, <<writer[1]>>, <<r.self>>, <<>>)
    /\ UNCHANGED <<size, word, initialized, deallocated, pendingFree, reclaim, muts, bufs>>

\* unsafe set_initialized_to(to), called as its contract demands: the caller has
\* initialized (here: zeroed, through uninitialized_mut) the bytes up to `to`
\* that were not initialized yet
MutSetInitializedTo(b, to) ==
    LET r == BufferRef_set_initialized_to(b.inner, to, initialized)
        zeroed == [i \in DOMAIN mem |->
                     IF /\ i > b.inner.start /\ i <= b.inner.start + to
                        /\ i <= b.inner.end /\ mem[i] = Uninit
                     THEN 0 ELSE mem[i]]
    IN  /\ initialized' = r.initialized
        /\ mem' = IF to <= ArcBufMut_capacity(b) THEN zeroed ELSE mem
        /\ last' = Op("set_initialized_to", IF r.panic THEN "panic" ELSE "ok", <<to>>,
                      <<b>>, <<b>>, <<>>)
        /\ UNCHANGED <<size, word, deallocated, pendingFree, reclaim, muts, bufs, writer>>

Next ==
    \/ Deallocate
    \/ \E b \in BagToSet(muts) : MutDrop(b)
    \/ \E b \in BagToSet(bufs) : BufDrop(b)
    \/ \E b \in BagToSet(bufs) : BufClone(b)
    \/ \E b \in BagToSet(bufs) :
          \E s \in 0..ArcBuf_len(b), e \in 0..(ArcBuf_len(b) + 1) : s <= e /\ BufView(b, s, e)
    \/ \E b \in BagToSet(muts) : MutFreeze(b)
    \/ \E b \in BagToSet(muts) : \E at \in 0..(b.filled + 1) : MutSplitAt(b, at)
    \/ \E b \in BagToSet(muts) : \E to \in 0..(ArcBufMut_capacity(b) + 1) : MutSetFilledTo(b, to)
    \/ \E b \in BagToSet(muts) : MutFullyInitialize(b)
    \/ \E b \in BagToSet(muts) : MutClear(b)
    \/ TryReclaim
    \/ ReclaimDrop
    \/ \E b \in BagToSet(muts) : WriterNew(b)
    \/ WriterDrop
    \/ \E with \in ExtendInputs : WriterExtend(with)
    \/ /\ writer # <<>>
       /\ \E by \in 0..(ArcBufMut_capacity(writer[1].buf) - writer[1].position + 1) :
             WriterAdvance(by)
    \/ /\ writer # <<>>
       /\ \E length \in 0..(Writer_remaining(writer[1]) + 1), v \in ViewMutInputs :
             WriterViewMut(length, v)
    \/ /\ writer # <<>>
       /\ \E length \in 0..(Writer_remaining(writer[1]) + 1), v \in ViewMutInputs :
             WriterPeekViewMut(length, v)
    \/ \E v \in ViewMutInputs : WriterRestMut(v)
    \/ \E v \in ViewMutInputs : WriterPeekRestMut(v)
    \/ \E v \in ViewMutInputs : WriterPeekChunkMut(v)
    \/ \E b \in BagToSet(muts) :
          \E to \in 0..(ArcBufMut_capacity(b) + 1) : MutSetInitializedTo(b, to)
    \/ \E b \in BagToSet(bufs) : \E length \in 0..(ArcBuf_len(b) + 1) : BufReaderView(b, length)
    \/ \E b \in BagToSet(bufs) : \E by \in 0..(ArcBuf_len(b) + 1) : BufAdvance(b, by)
    \/ \E b \in BagToSet(bufs) : BufRest(b)

Spec == Init /\ [][Next]_vars

\* The handle life cycle alone: every operation that creates, moves, narrows or
\* drops a handle, with fully_initialize and set_filled_to to fill a buffer; the
\* Writer (which reads and writes no reference count and no range) is left out.
NextHandles ==
    \/ Deallocate
    \/ \E b \in BagToSet(muts) : MutDrop(b)
    \/ \E b \in BagToSet(bufs) : BufDrop(b)
    \/ \E b \in BagToSet(bufs) : BufClone(b)
    \/ \E b \in BagToSet(bufs) :
          \E s \in 0..ArcBuf_len(b), e \in 0..(ArcBuf_len(b) + 1) : s <= e /\ BufView(b, s, e)
    \/ \E b \in BagToSet(muts) : MutFreeze(b)
    \/ \E b \in BagToSet(muts) : \E at \in 0..(b.filled + 1) : MutSplitAt(b, at)
    \/ \E b \in BagToSet(muts) : \E to \in 0..(ArcBufMut_capacity(b) + 1) : MutSetFilledTo(b, to)
    \/ \E b \in BagToSet(muts) : MutFullyInitialize(b)
    \/ TryReclaim
    \/ ReclaimDrop

SpecHandles == Init /\ [][NextHandles]_vars

\* WF: a thread whose decrement returned MustDrop(true) runs deallocate next;
\* nothing blocks it
SpecHandlesFair == SpecHandles /\ WF_vars(Deallocate)

\* The mutable side alone: one allocation split into at most MaxHalves ArcBufMut
\* halves, written through the Writer and through the ArcBufMut operations; no
\* ArcBuf, no Reclaim operation, and no half is dropped.
NextWriter ==
    \/ \E b \in BagToSet(muts) :
          \E at \in 0..(b.filled + 1) : Handles < MaxHalves /\ MutSplitAt(b, at)
    \/ \E b \in BagToSet(muts) : \E to \in 0..(ArcBufMut_capacity(b) + 1) : MutSetFilledTo(b, to)
    \/ \E b \in BagToSet(muts) :
          \E to \in 0..(ArcBufMut_capacity(b) + 1) : MutSetInitializedTo(b, to)
    \/ \E b \in BagToSet(muts) : MutFullyInitialize(b)
    \/ \E b \in BagToSet(muts) : MutClear(b)
    \/ \E b \in BagToSet(muts) : WriterNew(b)
    \/ WriterDrop
    \/ \E with \in ExtendInputs : WriterExtend(with)
    \/ /\ writer # <<>>
       /\ \E by \in 0..(ArcBufMut_capacity(writer[1].buf) - writer[1].position + 1) :
             WriterAdvance(by)
    \/ /\ writer # <<>>
       /\ \E length \in 0..(Writer_remaining(writer[1]) + 1), v \in ViewMutInputs :
             WriterViewMut(length, v)

\* ArcBufMut::new(MaxCap): the largest buffer, without a Reclaim handle
InitWriter == Init /\ size = MaxCap /\ ~reclaim

SpecWriter == InitWriter /\ [][NextWriter]_vars

\* The cursor over reclaim cycles: one reclaimable allocation of MaxCap bytes,
\* the ArcBufMut operations that move or read MetaData.initialized, split_at,
\* freeze, the drops and try_reclaim; no Writer (SpecWriter has it), no clone or
\* view of an ArcBuf.
NextCursor ==
    \/ \E b \in BagToSet(muts) : \E at \in 0..(b.filled + 1) : MutSplitAt(b, at)
    \/ \E b \in BagToSet(muts) : \E to \in 0..(ArcBufMut_capacity(b) + 1) : MutSetFilledTo(b, to)
    \/ \E b \in BagToSet(muts) :
          \E to \in 0..(ArcBufMut_capacity(b) + 1) : MutSetInitializedTo(b, to)
    \/ \E b \in BagToSet(muts) : MutFullyInitialize(b)
    \/ \E b \in BagToSet(muts) : MutClear(b)
    \/ \E b \in BagToSet(muts) : MutFreeze(b)
    \/ \E b \in BagToSet(muts) : MutDrop(b)
    \/ \E b \in BagToSet(bufs) : BufDrop(b)
    \/ TryReclaim

\* ArcBufMut::new_reclaimable(MaxCap)
InitCursor == Init /\ size = MaxCap /\ reclaim

SpecCursor == InitCursor /\ [][NextCursor]_vars

\* WF: the holder of the Reclaim calls try_reclaim() again; the call is enabled
\* whenever there is room for the handle it may return
SpecCursorFair == SpecCursor /\ WF_vars(TryReclaim)

\* The mutable side with as many ArcBufMut as MaxHandles allows: NextWriter
\* without its limit of MaxHalves on split_at.
NextWriterHandles ==
    \/ \E b \in BagToSet(muts) : \E at \in 0..(b.filled + 1) : MutSplitAt(b, at)
    \/ \E b \in BagToSet(muts) : \E to \in 0..(ArcBufMut_capacity(b) + 1) : MutSetFilledTo(b, to)
    \/ \E b \in BagToSet(muts) : MutFullyInitialize(b)
    \/ \E b \in BagToSet(muts) : WriterNew(b)
    \/ WriterDrop
    \/ \E with \in ExtendInputs : WriterExtend(with)
    \/ /\ writer # <<>>
       /\ \E by \in 0..(ArcBufMut_capacity(writer[1].buf) - writer[1].position + 1) :
             WriterAdvance(by)
    \/ /\ writer # <<>>
       /\ \E length \in 0..(Writer_remaining(writer[1]) + 1), v \in ViewMutInputs :
             WriterViewMut(length, v)
    \/ /\ writer # <<>>
       /\ \E length \in 0..(Writer_remaining(writer[1]) + 1), v \in ViewMutInputs :
             WriterPeekViewMut(length, v)
    \/ \E v \in ViewMutInputs : WriterRestMut(v)
    \/ \E v \in ViewMutInputs : WriterPeekRestMut(v)
    \/ \E v \in ViewMutInputs : WriterPeekChunkMut(v)

SpecWriterHandles == InitWriter /\ [][NextWriterHandles]_vars

\* Sequential reads: one buffer written through its Writer, frozen, and read
\* through the BufReader operations of the ArcBuf handles
NextReader ==
    \/ Deallocate
    \/ \E b \in BagToSet(muts) : WriterNew(b)
    \/ WriterDrop
    \/ \E with \in ExtendInputs : WriterExtend(with)
    \/ \E b \in BagToSet(muts) : \E to \in 0..(ArcBufMut_capacity(b) + 1) : MutSetFilledTo(b, to)
    \/ \E b \in BagToSet(muts) : MutFullyInitialize(b)
    \/ \E b \in BagToSet(muts) : MutFreeze(b)
    \/ \E b \in BagToSet(bufs) : BufDrop(b)
    \/ \E b \in BagToSet(bufs) : \E length \in 0..(ArcBuf_len(b) + 1) : BufReaderView(b, length)
    \/ \E b \in BagToSet(bufs) : \E by \in 0..(ArcBuf_len(b) + 1) : BufAdvance(b, by)
    \/ \E b \in BagToSet(bufs) : BufRest(b)

SpecReader == InitWriter /\ [][NextReader]_vars

\* Every operation that moves the range of a handle, on a reclaimable
\* allocation of the largest size
NextRanges ==
    \/ \E b \in BagToSet(muts) : MutDrop(b)
    \/ \E b \in BagToSet(bufs) : BufDrop(b)
    \/ \E b \in BagToSet(muts) : MutFreeze(b)
    \/ \E b \in BagToSet(muts) : \E at \in 0..(b.filled + 1) : MutSplitAt(b, at)
    \/ \E b \in BagToSet(muts) : \E to \in 0..(ArcBufMut_capacity(b) + 1) : MutSetFilledTo(b, to)
    \/ \E b \in BagToSet(muts) : MutFullyInitialize(b)
    \/ \E b \in BagToSet(bufs) :
          \E s \in 0..ArcBuf_len(b), e \in 0..(ArcBuf_len(b) + 1) : s <= e /\ BufView(b, s, e)
    \/ \E b \in BagToSet(bufs) : \E length \in 0..(ArcBuf_len(b) + 1) : BufReaderView(b, length)
    \/ \E b \in BagToSet(bufs) : \E by \in 0..(ArcBuf_len(b) + 1) : BufAdvance(b, by)
    \/ \E b \in BagToSet(bufs) : BufRest(b)
    \/ TryReclaim

SpecRanges == InitCursor /\ [][NextRanges]_vars

(* ---- observations used by the claims ---- *)
\* the handles that hold a reference: non-null meta_data
Holding(bag) ==
    LET S == {h \in BagToSet(bag) : h.inner.meta}
    IN  BagCardinality([h \in S |-> bag[h]])

StrongHandles ==
    Holding(muts) + Holding(bufs)
    + (IF writer # <<>> /\ writer[1].buf.inner.meta THEN 1 ELSE 0)

AllDropped == size # 0 /\ StrongHandles = 0 /\ ~reclaim

(* ---- claims ---- *)

\* C1: Buffer::deallocate runs at most once (at most one drop is ever told to run
\* it), and once it is due or has run no BufferRef and no Reclaim of the
\* allocation is live.
C1_DeallocateOnce ==
    /\ pendingFree + deallocated <= 1
    /\ (pendingFree + deallocated >= 1) => (StrongHandles = 0 /\ ~reclaim)

C1_Witness == deallocated = 1 /\ last.op = "deallocate" /\ size = MaxCap

\* C2: while the allocation is live the word is 2 * (handles holding a reference)
\* + (1 iff the Reclaim is live); every handle's ref_count() reports that count,
\* and the assertion of decrement holds for every handle that can be dropped.
C2_WordCountsHandles ==
    (size # 0 /\ deallocated = 0) =>
        /\ word = 2 * StrongHandles + (IF reclaim THEN 1 ELSE 0)
        /\ \A h \in BagToSet(muts) \cup BagToSet(bufs) \cup {w.buf : w \in Range(writer)} :
               h.inner.meta =>
                   /\ BufferRef_ref_count(h.inner, word) = Counted(StrongHandles, reclaim)
                   /\ ~BufferRef_drop(h.inner, word).panic

C2_Witness ==
    /\ StrongHandles = MaxHandles /\ reclaim /\ word = 2 * MaxHandles + 1
    /\ last.op = "split_at"

\* C3: once every handle and the Reclaim are dropped, exactly one deallocation is
\* owed by the drop that was last, and it is then carried out.
C3_NoLeak ==
    /\ [](AllDropped => pendingFree + deallocated = 1)
    /\ (AllDropped ~> (deallocated = 1))

C3_Witness ==
    /\ AllDropped /\ pendingFree = 1 /\ last.op = "drop_reclaim"

\* C4: with a live Reclaim of a non-zero-sized allocation, can_reclaim() is true
\* exactly when no handle holding a reference is alive.
C4_CanReclaimIffNoHandle ==
    (size # 0 /\ reclaim) => (Reclaim_can_reclaim(size, word) <=> StrongHandles = 0)

C4_Witness ==
    /\ size # 0 /\ reclaim /\ StrongHandles = 0 /\ Reclaim_can_reclaim(size, word)
    /\ last.op = "drop_buf"

\* C5: on a non-zero-sized allocation try_reclaim() returns Some exactly when no
\* handle holding a reference is alive (the word is 1 and becomes 3); when it
\* returns None the word, the cursor, the block and every handle are unchanged.
C5_TryReclaimStep ==
    (last'.op = "try_reclaim" /\ size # 0) =>
        IF StrongHandles = 0
        THEN last'.outcome = "some" /\ word = 1 /\ word' = 3
        ELSE /\ last'.outcome = "none"
             /\ UNCHANGED <<word, initialized, mem, muts, bufs, writer>>

C5_TryReclaim == [][C5_TryReclaimStep]_vars

C5_Witness ==
    /\ last.op = "try_reclaim" /\ last.outcome = "none" /\ size # 0
    /\ StrongHandles > 0 /\ initialized > 0

\* C6: the buffer of a successful try_reclaim() on an allocation of size N > 0 is
\* the full range [0, N), tail, empty, with ref_count() Counted{1, reclaim}.
C6_ReclaimedBuffer ==
    (last.op = "try_reclaim" /\ last.outcome = "some" /\ size # 0) =>
        LET b == last.ret[1]
        IN  /\ b.inner.start = 0 /\ b.inner.end = size
            /\ ArcBufMut_capacity(b) = size
            /\ b.inner.tail
            /\ ArcBufMut_len(b) = 0
            /\ ArcBufMut_ref_count(b, word) = Counted(1, TRUE)

C6_Witness ==
    /\ last.op = "try_reclaim" /\ last.outcome = "some" /\ size = MaxCap
    /\ initialized > 0

\* C7: with capacity 0 nothing is allocated: every buffer is Static, can_reclaim()
\* is true in every state, every try_reclaim() returns a Static buffer.
C7_ZeroSizedReclaim ==
    size = 0 =>
        /\ pendingFree = 0 /\ deallocated = 0
        /\ \A h \in BagToSet(muts) : RefCount_is_static(ArcBufMut_ref_count(h, word))
        /\ reclaim => Reclaim_can_reclaim(size, word)
        /\ last.op = "try_reclaim" =>
               /\ last.outcome = "some"
               /\ RefCount_is_static(ArcBufMut_ref_count(last.ret[1], word))

C7_Witness == size = 0 /\ last.op = "try_reclaim" /\ muts = EmptyBag

\* C8: a buffer fresh from new(c) or new_reclaimable(c) has capacity() = c,
\* len() = 0, and ref_count() Static iff c = 0, else Counted{1, Reclaim created}.
C8_FreshBuffer ==
    last.op \in {"new", "new_reclaimable"} =>
        LET b == last.ret[1]
            c == last.arg[1]
            rc == ArcBufMut_ref_count(b, word)
        IN  /\ ArcBufMut_capacity(b) = c
            /\ ArcBufMut_len(b) = 0
            /\ RefCount_is_static(rc) <=> c = 0
            /\ c > 0 => rc = Counted(1, last.op = "new_reclaimable")
            /\ reclaim <=> last.op = "new_reclaimable"

C8_Witness == last.op = "new_reclaimable" /\ last.arg[1] = MaxCap

\* C9: split_at(at) with 0 < at < len() returns the first at filled bytes with
\* len() = capacity() = at and leaves the rest: len and capacity reduced by at,
\* and the two contents together are the content before.
C9_SplitAtMiddle ==
    (last.op = "split_at" /\ 0 < last.arg[1] /\ last.arg[1] < last.pre[1].filled) =>
        /\ last.outcome = "ok"
        /\ LET at == last.arg[1]
               b == last.pre[1]
               rest == last.post[1]
               left == last.ret[1]
               before == ArcBufMut_filled(b, mem)
               l == ArcBufMut_filled(left, mem)
               r == ArcBufMut_filled(rest, mem)
           IN  /\ ArcBufMut_len(left) = at /\ ArcBufMut_capacity(left) = at
               /\ ArcBufMut_len(rest) = b.filled - at
               /\ ArcBufMut_capacity(rest) = ArcBufMut_capacity(b) - at
               /\ ~l.panic /\ ~r.panic
               /\ l.bytes = SubSeq(before.bytes, 1, at)
               /\ l.bytes \o r.bytes = before.bytes

\* C10: split_at(0) returns an empty, Static, non-tail buffer and leaves the
\* receiver and the word as they were.
C10_SplitAtZero ==
    (last.op = "split_at" /\ last.arg[1] = 0) =>
        /\ last.outcome = "ok"
        /\ LET left == last.ret[1]
           IN  /\ ArcBufMut_len(left) = 0
               /\ RefCount_is_static(ArcBufMut_ref_count(left, word))
               /\ ~left.inner.tail
        /\ last.post = last.pre
        /\ word = last.word

C10_Witness ==
    /\ last.op = "split_at" /\ last.arg[1] = 0
    /\ last.pre[1].inner.start > 0 /\ last.pre[1].inner.tail /\ last.pre[1].filled > 0

\* C11: split_at(f) on a buffer with len() = f > 0 moves the whole buffer into the
\* returned value (same range, unfilled capacity included, same len, same tail
\* flag), leaves the word as it was, and leaves the receiver a fresh empty
\* buffer: len 0, capacity 0, Static, not tail.
C11_SplitAtLen ==
    (last.op = "split_at" /\ last.arg[1] > 0 /\ last.arg[1] = last.pre[1].filled) =>
        /\ last.outcome = "ok"
        /\ last.ret = last.pre
        /\ ArcBufMut_len(last.ret[1]) = last.arg[1]
        /\ word = last.word
        /\ LET self == last.post[1]
           IN  /\ ArcBufMut_len(self) = 0
               /\ ArcBufMut_capacity(self) = 0
               /\ RefCount_is_static(ArcBufMut_ref_count(self, word))
               /\ ~self.inner.tail

\* the moved buffer has unfilled capacity behind its filled bytes
C11_Witness ==
    /\ last.op = "split_at" /\ last.arg[1] > 0 /\ last.arg[1] = last.pre[1].filled
    /\ ArcBufMut_capacity(last.pre[1]) > last.pre[1].filled
    /\ last.pre[1].inner.meta

\* C12: split_at(at) with at > len() = f returns IndexOutOfBounds with required =
\* at and bounds = (0, f) and changes nothing: the receiver keeps its range, len
\* and tail flag, no buffer is returned, and the initialization cursor and the
\* word (hence the strong count) are the ones before the call.
C12_SplitAtPastLen ==
    (last.op = "split_at" /\ last.arg[1] > last.pre[1].filled) =>
        /\ last.outcome = "err"
        /\ last.err = <<IndexOutOfBounds(last.arg[1], <<0, last.pre[1].filled>>)>>
        /\ last.ret = <<>>
        /\ last.post = last.pre
        /\ last.pre[1] \in BagToSet(muts)
        /\ initialized = last.initialized
        /\ word = last.word

\* a refused split of a tail right half with filled bytes and a moved cursor
C12_Witness ==
    /\ last.op = "split_at" /\ last.arg[1] > last.pre[1].filled
    /\ last.pre[1].filled > 0 /\ last.pre[1].inner.start > 0 /\ last.pre[1].inner.tail
    /\ initialized > 0

\* the operations of C13 that go through the Writer, and those called on an
\* ArcBufMut
C13_WriterOps == {"extend", "advance", "view_mut"}

C13_MutOps == {"set_filled_to", "fully_initialize", "clear"}

\* C13: isolation after split. A write operation on one ArcBufMut (extend,
\* advance or view_mut through its Writer; set_filled_to, fully_initialize or
\* clear on it) leaves every other ArcBufMut of the allocation as it was: same
\* record (so same len()) and same filled bytes. An extend or advance that does
\* not fit fails with Full{required: length, capacity: capacity of the written
\* buffer} and leaves the memory and the written buffer unchanged too; an extend
\* past the capacity always fails.
C13_IsolationStep ==
    /\ last'.op \in C13_WriterOps =>
          /\ muts' = muts
          /\ \A o \in BagToSet(muts) : ArcBufMut_filled(o, mem') = ArcBufMut_filled(o, mem)
    /\ last'.op \in C13_MutOps =>
          LET others == muts (-) One(last'.pre[1])
          IN  /\ \A o \in BagToSet(others) :
                    /\ CopiesIn(o, muts') >= CopiesIn(o, others)
                    /\ ArcBufMut_filled(o, mem') = ArcBufMut_filled(o, mem)
              /\ writer' = writer
              /\ \A w \in Range(writer) :
                    ArcBufMut_filled(w.buf, mem') = ArcBufMut_filled(w.buf, mem)
    /\ (last'.op \in {"extend", "advance"} /\ last'.outcome = "err") =>
          LET length == IF last'.op = "extend" THEN Len(last'.arg) ELSE last'.arg[1]
          IN  /\ last'.err = <<Full(length, ArcBufMut_capacity(writer[1].buf))>>
              /\ mem' = mem
              /\ writer' = writer
    /\ (last'.op = "extend"
          /\ writer[1].position + Len(last'.arg) > ArcBufMut_capacity(writer[1].buf)) =>
          last'.outcome = "err"

C13_Isolation == [][C13_IsolationStep]_vars

\* bytes were written into the right half while the left half holds filled bytes
C13_Witness ==
    /\ last.op = "extend" /\ last.outcome = "ok" /\ Len(last.arg) > 0
    /\ writer[1].buf.inner.start > 0
    /\ \E o \in BagToSet(muts) : o.inner.meta /\ o.inner.start = 0 /\ o.filled > 0

\* two handles share a byte of the allocation
C14_Overlap(a, b) ==
    /\ a.meta /\ b.meta
    /\ Max(a.start, b.start) < (IF a.end <= b.end THEN a.end ELSE b.end)

\* every live ArcBufMut, the one a Writer borrows included
C14_LiveMuts == muts (+) SetToBag({w.buf : w \in Range(writer)})

\* C14: the ranges of any two live ArcBufMut handles of the allocation are
\* disjoint, and no live ArcBuf range overlaps a live ArcBufMut range, in every
\* state reached by split_at, freeze, view, clone, drop and try_reclaim.
C14_Disjoint ==
    \A a \in BagToSet(C14_LiveMuts) :
        /\ CopiesIn(a, C14_LiveMuts) > 1 => ~C14_Overlap(a.inner, a.inner)
        /\ \A b \in BagToSet(C14_LiveMuts) \ {a} : ~C14_Overlap(a.inner, b.inner)
        /\ \A c \in BagToSet(bufs) : ~C14_Overlap(a.inner, c.inner)

\* a frozen middle part between two mutable halves
C14_Witness ==
    /\ last.op = "freeze"
    /\ \E a, b \in BagToSet(muts) : \E c \in BagToSet(bufs) :
          /\ a.inner.meta /\ b.inner.meta /\ c.inner.meta
          /\ a.inner.start < a.inner.end /\ a.inner.end = c.inner.start
          /\ c.inner.start < c.inner.end /\ c.inner.end = b.inner.start
          /\ b.inner.start < b.inner.end

\* C15: every live ArcBufMut has filled <= (initialized boundary - start) <=
\* capacity(), the boundary being the one initialized_end() reads without
\* panicking; so len() never exceeds capacity().
C15_FilledWithinInitialized ==
    \A b \in BagToSet(C14_LiveMuts) :
        LET end == BufferRef_initialized_end(b.inner, initialized)
        IN  /\ ~end.panic
            /\ b.filled <= end.value - b.inner.start
            /\ end.value - b.inner.start <= ArcBufMut_capacity(b)
            /\ ArcBufMut_len(b) <= ArcBufMut_capacity(b)

\* C16: freeze() of an ArcBufMut with len() = 0 returns a Static, empty ArcBuf
\* whatever the capacity, and releases the reference the buffer held: the word
\* loses one strong count (2), the deallocation is due if that was the last
\* reference and no Reclaim is left, and with only the Reclaim left the buffer
\* can be reclaimed. (A buffer of capacity 0 holds no reference to release.)
C16_FreezeEmpty ==
    (last.op = "freeze" /\ last.pre[1].filled = 0) =>
        /\ last.outcome = "ok"
        /\ RefCount_is_static(ArcBuf_ref_count(last.ret[1], word))
        /\ ArcBuf_len(last.ret[1]) = 0
        /\ IF last.pre[1].inner.meta
           THEN /\ word = last.word - 2
                /\ last.word = 2 => (word = 0 /\ pendingFree > 0)
                /\ last.word = 3 => (Reclaim_can_reclaim(size, word) /\ pendingFree = 0)
           ELSE word = last.word

\* an empty buffer with capacity is frozen while only the Reclaim is left
C16_Witness ==
    /\ last.op = "freeze" /\ last.pre[1].filled = 0
    /\ ArcBufMut_capacity(last.pre[1]) > 0
    /\ last.word = 3

\* C17: freeze() of an ArcBufMut with len() = f > 0 returns an ArcBuf with len()
\* = f whose bytes are the filled bytes, whose range is [start, start + f) of
\* the same allocation, and leaves the word (the strong count) as it was.
C17_FreezeFilled ==
    (last.op = "freeze" /\ last.pre[1].filled > 0) =>
        /\ last.outcome = "ok"
        /\ LET self == last.pre[1]
               ret == last.ret[1]
           IN  /\ ArcBuf_len(ret) = self.filled
               /\ ~ArcBufMut_filled(self, mem).panic
               /\ ArcBuf_bytes(ret, mem) = ArcBufMut_filled(self, mem).bytes
               /\ ret.inner.meta = self.inner.meta
               /\ ret.inner.start = self.inner.start
               /\ ret.inner.end = self.inner.start + self.filled
        /\ word = last.word

\* C18: shrink(s, e) with s = e leaves the default handle in place of the
\* shrunk one (null meta_data, Static, not tail), also while other handles
\* still reference the allocation, and releases exactly the one reference the
\* shrunk handle held. shrink is reached through view(s..s), which shrinks a
\* clone (the word ends where it was: one count taken by the clone, one
\* released), and through freeze() with nothing filled (the word loses one
\* count).
C18_ShrinkToEmpty ==
    /\ (last.op = "view" /\ last.outcome = "ok" /\ last.arg[1] = last.arg[2]) =>
          /\ last.ret[1].inner = BufferRef_default
          /\ RefCount_is_static(ArcBuf_ref_count(last.ret[1], word))
          /\ ~last.ret[1].inner.meta /\ ~last.ret[1].inner.tail
          /\ word = last.word
          /\ pendingFree = 0
          /\ last.pre[1] \in BagToSet(bufs)
    /\ (last.op = "freeze" /\ last.outcome = "ok" /\ last.pre[1].filled = 0) =>
          /\ last.ret[1].inner = BufferRef_default
          /\ ~last.ret[1].inner.meta /\ ~last.ret[1].inner.tail
          /\ word = last.word - (IF last.pre[1].inner.meta THEN 2 ELSE 0)

\* an empty view in the middle of an ArcBuf that shares the allocation with
\* another handle
C18_Witness ==
    /\ last.op = "view" /\ last.outcome = "ok" /\ last.arg[1] = last.arg[2]
    /\ last.arg[1] > 0 /\ last.arg[1] < ArcBuf_len(last.pre[1])
    /\ last.pre[1].inner.meta
    /\ last.word >= 4

\* C19 as stated: the buffer returned by a successful split_at(at), for every
\* 0 <= at <= len(), is not tail.
C19_LeftNeverTail ==
    (last.op = "split_at" /\ last.outcome = "ok") => ~last.ret[1].inner.tail

\* C19: the buffer returned by a successful split_at(at) is not tail whenever
\* at = 0 or at < len(); for at = len() > 0 the receiver is moved out whole and
\* the returned buffer has the tail flag the receiver had.
C19_LeftNotTailBelowLen ==
    (last.op = "split_at" /\ last.outcome = "ok") =>
        IF last.arg[1] = 0 \/ last.arg[1] < last.pre[1].filled
        THEN ~last.ret[1].inner.tail
        ELSE last.ret[1].inner.tail = last.pre[1].inner.tail

\* a left half cut out of a tail buffer
C19_Witness ==
    /\ last.op = "split_at" /\ last.outcome = "ok"
    /\ last.arg[1] > 0 /\ last.arg[1] < last.pre[1].filled
    /\ last.pre[1].inner.tail
    /\ ArcBufMut_capacity(last.ret[1]) = last.arg[1]
    /\ last.post[1].inner.tail

\* C20: set_initialized_to(to), fully_initialize() and every Writer operation
\* (extend, advance, view_mut) on a buffer that is not tail leave
\* MetaData.initialized as it was, so the tail buffer reads the same initialized
\* boundary before and after.
C20_NonTailKeepsCursor ==
    /\ (last.op \in {"set_initialized_to", "fully_initialize"}
          /\ ~last.pre[1].inner.tail) =>
          initialized = last.initialized
    /\ (last.op \in C13_WriterOps /\ ~last.pre[1].buf.inner.tail) =>
          /\ initialized = last.initialized
          /\ \A t \in BagToSet(muts) :
                BufferRef_initialized_end(t.inner, initialized)
                    = BufferRef_initialized_end(t.inner, last.initialized)

\* bytes were written through the Writer of a left half while the tail right
\* half still has uninitialized capacity
C20_Witness ==
    /\ last.op = "extend" /\ last.outcome = "ok" /\ Len(last.arg) > 0
    /\ last.pre[1].buf.inner.meta /\ ~last.pre[1].buf.inner.tail
    /\ \E t \in BagToSet(muts) : t.inner.tail /\ initialized < t.inner.end

\* C21: MetaData.initialized never decreases: after every operation
\* (set_initialized_to with a smaller argument, set_filled_to, clear, split_at,
\* freeze, fully_initialize, the drops, try_reclaim, the Writer operations) it is
\* at least what it was before the operation.
C21_CursorMonotone == initialized >= last.initialized

\* set_initialized_to was called on the tail with an argument below the cursor
C21_Witness ==
    /\ last.op = "set_initialized_to" /\ last.outcome = "ok"
    /\ last.pre[1].inner.tail
    /\ last.pre[1].inner.start + last.arg[1] < last.initialized

\* the cursor lies within the range of handle h
C22_CursorWithin(h) == h.start <= initialized /\ initialized <= h.end

\* C22 as stated: every live handle (ArcBufMut or ArcBuf) whose tail flag is
\* true has start <= MetaData.initialized <= end.
C22_TailCursorInBounds ==
    /\ \A b \in BagToSet(C14_LiveMuts) : b.inner.tail => C22_CursorWithin(b.inner)
    /\ \A c \in BagToSet(bufs) : c.inner.tail => C22_CursorWithin(c.inner)

\* C22: every live ArcBufMut whose tail flag is true has start <=
\* MetaData.initialized <= end, so initialized_end() on it does not panic and
\* the assertion of initialized_end, set_initialized_to and fully_initialize
\* cannot fire. (An ArcBuf never reads the cursor.)
C22_TailMutCursorInBounds ==
    \A b \in BagToSet(C14_LiveMuts) :
        /\ b.inner.tail => C22_CursorWithin(b.inner)
        /\ ~BufferRef_initialized_end(b.inner, initialized).panic

\* a tail right half cut off below the cursor, in a later reclaim cycle
C22_Witness ==
    /\ last.op = "split_at" /\ last.outcome = "ok"
    /\ last.post[1].inner.tail /\ last.post[1].inner.start > 0
    /\ initialized > last.post[1].inner.start
    /\ initialized < last.post[1].inner.end

\* C23: Writer::extend(bytes) with n = Len(bytes), at position p, on a buffer of
\* capacity c. If p + n <= c it succeeds, stores bytes in the cells [p, p + n)
\* of the buffer and leaves every other cell alone, sets position to p + n and
\* filled to max(filled, p + n), keeps the range, and on a tail buffer leaves
\* the initialized boundary at max(old boundary, p + n), on another buffer
\* where it was. If p + n > c it fails with Full{required: n, capacity: c} and
\* position, filled, the cursor and every cell are unchanged.
C23_ExtendStep ==
    last'.op = "extend" =>
        LET w == writer[1]
            b == w.buf
            p == w.position
            n == Len(last'.arg)
            first == b.inner.start + p
        IN  IF p + n <= ArcBufMut_capacity(b)
            THEN /\ last'.outcome = "ok"
                 /\ \A i \in DOMAIN mem :
                       mem'[i] = IF i > first /\ i <= first + n
                                 THEN last'.arg[i - first] ELSE mem[i]
                 /\ writer'[1].position = p + n
                 /\ writer'[1].buf.filled = Max(b.filled, p + n)
                 /\ writer'[1].buf.inner = b.inner
                 /\ initialized' = IF b.inner.tail THEN Max(initialized, first + n)
                                   ELSE initialized
            ELSE /\ last'.outcome = "err"
                 /\ last'.err = <<Full(n, ArcBufMut_capacity(b))>>
                 /\ writer' = writer
                 /\ initialized' = initialized
                 /\ mem' = mem

C23_Extend == [][C23_ExtendStep]_vars

\* bytes were written over the start of a longer filled part of a right half
C23_Witness ==
    /\ last.op = "extend" /\ last.outcome = "ok" /\ Len(last.arg) > 0
    /\ writer[1].buf.inner.start > 0
    /\ writer[1].buf.filled > writer[1].position

\* C24: Writer::advance(by) at position p, with filled f and capacity c. If
\* by <= f - p only the position changes, to p + by. If by > f - p and
\* p + by <= c the call succeeds, leaves the cells [p, f) alone, zeroes the
\* cells [f, p + by), and sets position and filled to p + by. If p + by > c it
\* fails and position, filled and every cell are unchanged.
C24_AdvanceStep ==
    last'.op = "advance" =>
        LET w == writer[1]
            b == w.buf
            p == w.position
            f == b.filled
            by == last'.arg[1]
            off == b.inner.start
        IN  /\ by <= f - p =>
                  /\ last'.outcome = "ok"
                  /\ writer' = <<[w EXCEPT !.position = p + by]>>
                  /\ mem' = mem /\ initialized' = initialized
            /\ (by > f - p /\ p + by <= ArcBufMut_capacity(b)) =>
                  /\ last'.outcome = "ok"
                  /\ \A i \in DOMAIN mem :
                        mem'[i] = IF i > off + f /\ i <= off + p + by THEN 0 ELSE mem[i]
                  /\ writer'[1].position = p + by
                  /\ writer'[1].buf = [b EXCEPT !.filled = p + by]
            /\ p + by > ArcBufMut_capacity(b) =>
                  /\ last'.outcome = "err"
                  /\ writer' = writer
                  /\ mem' = mem

C24_Advance == [][C24_AdvanceStep]_vars

\* C25: Writer::view_mut(length), peek_view_mut, rest_mut and peek_rest_mut
\* never extend the buffer (filled and the initialized boundary stay);
\* view_mut(length) succeeds iff position + length <= filled, then moving the
\* position by length, and otherwise fails with Full{written: 0, requested:
\* length, remaining: filled - position} leaving the position; rest_mut sets
\* the position to filled; the peek variants leave the position.
C25_ViewStep ==
    last'.op \in {"view_mut", "peek_view_mut", "rest_mut", "peek_rest_mut"} =>
        LET w == writer[1]  p == w.position  f == w.buf.filled
        IN  /\ writer'[1].buf = w.buf
            /\ initialized' = initialized
            /\ last'.op = "view_mut" =>
                  /\ p + last'.arg[1] <= f =>
                        /\ last'.outcome = "ok"
                        /\ writer'[1].position = p + last'.arg[1]
                  /\ p + last'.arg[1] > f =>
                        /\ last'.outcome = "err"
                        /\ last'.err = <<IoFull(0, last'.arg[1], f - p)>>
                        /\ writer'[1].position = p
            /\ last'.op = "rest_mut" =>
                  last'.outcome = "ok" /\ writer'[1].position = f
            /\ last'.op \in {"peek_view_mut", "peek_rest_mut"} =>
                  writer'[1].position = p

C25_Views == [][C25_ViewStep]_vars

\* C26: set_filled_to(to) succeeds iff to <= initialized boundary - start of
\* the handle (the cursor for the tail, the end of the range for any other
\* handle, where the bound is the capacity), and then len() = to; otherwise
\* the call panics and filled is unchanged.
C26_SetFilledTo ==
    last.op = "set_filled_to" =>
        LET b == last.pre[1]
            to == last.arg[1]
            boundary == IF b.inner.tail THEN last.initialized ELSE b.inner.end
        IN  /\ ~b.inner.tail => boundary - b.inner.start = ArcBufMut_capacity(b)
            /\ last.outcome = "ok" <=> to <= boundary - b.inner.start
            /\ last.outcome = "ok" =>
                  /\ ArcBufMut_len(last.post[1]) = to
                  /\ last.post[1] = [b EXCEPT !.filled = to]
            /\ last.outcome # "ok" =>
                  last.outcome = "panic" /\ last.post[1] = b

\* set_filled_to succeeded below the capacity on a partly initialized tail
C26_Witness ==
    /\ last.op = "set_filled_to" /\ last.outcome = "ok"
    /\ last.pre[1].inner.tail
    /\ last.arg[1] >= 1
    /\ last.arg[1] = last.initialized - last.pre[1].inner.start
    /\ last.initialized < last.pre[1].inner.end

\* C27: clear() sets len() to 0 and changes nothing else: the range and the
\* capacity of the handle, its tail flag, the strong count of the allocation,
\* the initialized boundary and the bytes stay, so initialized() returns the
\* same bytes after clear() as before it.
C27_ClearStep ==
    last'.op = "clear" =>
        LET b == last'.pre[1]
            c == last'.post[1]
        IN  /\ b \in BagToSet(muts)
            /\ muts' = (muts (-) One(b)) (+) One(c)
            /\ ArcBufMut_len(c) = 0
            /\ c.inner = b.inner
            /\ ArcBufMut_capacity(c) = ArcBufMut_capacity(b)
            /\ word' = word
            /\ initialized' = initialized
            /\ mem' = mem
            /\ ArcBufMut_initialized(c, initialized', mem')
                  = ArcBufMut_initialized(b, initialized, mem)
            /\ UNCHANGED <<size, deallocated, pendingFree, bufs, writer>>

C27_Clear == [][C27_ClearStep]_vars

\* a filled buffer with initialized bytes and a sibling handle has been cleared
C27_Witness ==
    /\ last.op = "clear"
    /\ last.pre[1].filled >= 1
    /\ last.pre[1].inner.start >= 1
    /\ ArcBufMut_capacity(last.post[1]) >= 2
    /\ Len(ArcBufMut_initialized(last.post[1], initialized, mem).bytes) >= 1
    /\ ArcBufMut_ref_count(last.post[1], word).ref_count = 2

\* C28: ArcBuf::view(range) on a buffer of length n: a range within [0, n]
\* gives an ArcBuf over exactly that part of the same allocation, the receiver
\* stays as it was, and the strong count rises by one for a non-empty range and
\* by zero for an empty one (the result is then Static); a range beyond [0, n]
\* gives RangeOutOfBounds and leaves the strong count and the receiver.
C28_View ==
    last.op = "view" =>
        LET b == last.pre[1]
            n == ArcBuf_len(b)
            s == last.arg[1]
            e == last.arg[2]
        IN  /\ last.post = last.pre
            /\ b \in BagToSet(bufs)
            /\ (s <= e /\ e <= n) =>
                  /\ last.outcome = "ok"
                  /\ ArcBuf_len(last.ret[1]) = e - s
                  /\ ArcBuf_bytes(last.ret[1], mem) = SubSeq(ArcBuf_bytes(b, mem), s + 1, e)
                  /\ s < e =>
                        /\ last.ret[1].inner =
                              [b.inner EXCEPT !.start = b.inner.start + s,
                                              !.end = b.inner.start + e]
                        /\ word = last.word + 2
                        /\ ArcBuf_ref_count(last.ret[1], word).ref_count
                              = ArcBuf_ref_count(b, last.word).ref_count + 1
                  /\ s = e =>
                        /\ word = last.word
                        /\ RefCount_is_static(ArcBuf_ref_count(last.ret[1], word))
            /\ ~(s <= e /\ e <= n) =>
                  /\ last.outcome = "err"
                  /\ last.ret = <<>>
                  /\ word = last.word

\* a view strictly inside a buffer of three bytes
C28_Witness ==
    /\ last.op = "view" /\ last.outcome = "ok"
    /\ last.arg = <<1, 2>>
    /\ ArcBuf_len(last.pre[1]) = 3
    /\ last.ret[1] \in BagToSet(bufs)

\* C29: sequential reads on an ArcBuf of length n conserve content:
\* BufReader::view(length) with length <= n returns the first length bytes and
\* leaves the receiver with exactly the other n - length bytes (returned ++
\* remaining = original); advance(by) with by <= n drops exactly the first by
\* bytes; rest() returns everything and leaves the receiver empty and Static;
\* with length or by > n the call returns End{requested, read: 0, remaining: n}
\* and the receiver and the strong count are unchanged.
C29_ReadStep ==
    last'.op \in {"reader_view", "reader_advance", "rest"} =>
        LET b == last'.pre[1]
            n == ArcBuf_len(b)
            original == ArcBuf_bytes(b, mem)
            self == last'.post[1]
            remaining == ArcBuf_bytes(self, mem')
        IN  /\ b \in BagToSet(bufs)
            /\ mem' = mem
            /\ last'.op = "reader_view" =>
                  LET length == last'.arg[1]
                  IN  /\ length <= n =>
                            /\ last'.outcome = "ok"
                            /\ ArcBuf_bytes(last'.ret[1], mem') = SubSeq(original, 1, length)
                            /\ remaining = SubSeq(original, length + 1, n)
                            /\ ArcBuf_bytes(last'.ret[1], mem') \o remaining = original
                            /\ bufs' = ((bufs (-) One(b)) (+) KeepBuf(self))
                                          (+) KeepBuf(last'.ret[1])
                      /\ length > n =>
                            /\ last'.outcome = "err"
                            /\ last'.err = <<End(length, 0, n)>>
                            /\ self = b /\ bufs' = bufs /\ word' = word
            /\ last'.op = "reader_advance" =>
                  LET by == last'.arg[1]
                  IN  /\ by <= n =>
                            /\ last'.outcome = "ok"
                            /\ remaining = SubSeq(original, by + 1, n)
                            /\ bufs' = (bufs (-) One(b)) (+) KeepBuf(self)
                      /\ by > n =>
                            /\ last'.outcome = "err"
                            /\ last'.err = <<End(by, 0, n)>>
                            /\ self = b /\ bufs' = bufs /\ word' = word
            /\ last'.op = "rest" =>
                  /\ last'.ret[1] = b
                  /\ ArcBuf_bytes(last'.ret[1], mem') = original
                  /\ ArcBuf_len(self) = 0
                  /\ RefCount_is_static(ArcBuf_ref_count(self, word'))
                  /\ word' = word

C29_Reads == [][C29_ReadStep]_vars

\* view(1) has cut the byte 1 off a three-byte buffer that goes on with 0
C29_Witness ==
    /\ last.op = "reader_view" /\ last.outcome = "ok"
    /\ last.arg = <<1>>
    /\ ArcBuf_len(last.pre[1]) = 3
    /\ ArcBuf_bytes(last.ret[1], mem) = <<1>>
    /\ ArcBuf_bytes(last.post[1], mem) = <<0, 0>>

\* C30: a Static reference-count snapshot is unconditionally reclaimable:
\* RefCount::can_be_reclaimed() is true for RefCount::Static, as
\* Reclaim::can_reclaim() is true for every zero-sized allocation.
C30_StaticReclaimable ==
    /\ \A i \in DOMAIN last.ret :
          LET rc == BufferRef_ref_count(last.ret[i].inner, word)
          IN  RefCount_is_static(rc) => RefCount_can_be_reclaimed(rc)
    /\ (reclaim /\ RefCount_is_static(Reclaim_ref_count(size, word))) =>
          /\ Reclaim_can_reclaim(size, word)
          /\ RefCount_can_be_reclaimed(Reclaim_ref_count(size, word))

\* C30 (amended): can_be_reclaimed() is false for RefCount::Static and the
\* reclaim flag for a Counted snapshot: the snapshot of a handle is reclaimable
\* exactly when the handle holds an allocation whose Reclaim is alive, and the
\* snapshot of the Reclaim of a zero-sized allocation is Static and not
\* reclaimable although can_reclaim() is true for it.
C30_StaticNotReclaimable ==
    /\ \A h \in BagToSet(muts) \cup BagToSet(bufs) \cup {w.buf : w \in Range(writer)}
                \cup Range(last.ret) :
          LET rc == BufferRef_ref_count(h.inner, word)
          IN  /\ RefCount_is_static(rc) => ~RefCount_can_be_reclaimed(rc)
              /\ RefCount_can_be_reclaimed(rc) <=> (h.inner.meta /\ reclaim)
    /\ reclaim =>
          LET rc == Reclaim_ref_count(size, word)
          IN  /\ RefCount_can_be_reclaimed(rc) <=> size # 0
              /\ size = 0 => RefCount_is_static(rc) /\ Reclaim_can_reclaim(size, word)

\* try_reclaim on a zero-sized allocation has returned a Static buffer
C30_Witness ==
    /\ size = 0 /\ reclaim
    /\ last.op = "try_reclaim" /\ last.outcome = "some"
    /\ RefCount_is_static(ArcBufMut_ref_count(last.ret[1], word))
    /\ RefCount_is_static(Reclaim_ref_count(size, word))
    /\ Reclaim_can_reclaim(size, word)

\* the number of live handles in a bag whose BufferRef is marked as the tail
C31_Tails(bag) ==
    LET S == {h \in BagToSet(bag) : h.inner.tail}
    IN  BagCardinality([h \in S |-> bag[h]])

\* C31: at most one live BufferRef of the allocation has tail = true, the
\* handles of ArcBufMut and of ArcBuf counted alike.
C31_OneTail == C31_Tails(C14_LiveMuts) + C31_Tails(bufs) <= 1

\* C31 (amended): at most one live ArcBufMut is the tail, and while it lives
\* no ArcBuf carries the tail flag; the ArcBuf handles cloned or viewed from a
\* frozen tail buffer may all carry the flag.
C31_OneTailMut ==
    /\ C31_Tails(C14_LiveMuts) <= 1
    /\ C31_Tails(C14_LiveMuts) = 1 => C31_Tails(bufs) = 0

\* the tail ArcBufMut lives beside an ArcBuf frozen from the left half
C31_Witness ==
    /\ C31_Tails(C14_LiveMuts) = 1
    /\ BagCardinality(bufs) >= 1
    /\ last.op = "freeze" /\ last.outcome = "ok"

\* the BufferRef of every live handle and of every handle the last operation
\* returned or left behind
C32_Refs ==
    {h.inner : h \in BagToSet(C14_LiveMuts) \cup BagToSet(bufs)}
    \cup {h.inner : h \in {r \in Range(last.ret) \cup Range(last.post) : "inner" \in DOMAIN r}}

\* C32: every handle with start = end is the sentinel: null meta_data (its
\* ref_count() is Static), no strong reference held, tail = false; that is,
\* every handle with tail = true or non-null meta_data has end > start.
C32_EmptyIsSentinel ==
    \A r \in C32_Refs :
        /\ r.start = r.end =>
              /\ ~r.meta /\ ~r.tail
              /\ RefCount_is_static(BufferRef_ref_count(r, word))
              /\ r = BufferRef_default
        /\ (r.tail \/ r.meta) => r.end > r.start

\* split_at(len) has moved the tail away and left the sentinel in the receiver
C32_Witness ==
    /\ last.op = "split_at" /\ last.outcome = "ok"
    /\ last.arg[1] >= 1
    /\ last.post[1].inner = BufferRef_default
    /\ last.ret[1].inner.tail /\ last.ret[1].inner.meta
    /\ last.ret[1] \in BagToSet(muts)

\* C33: every live handle over an allocation of size N has
\* 0 <= start <= end <= N, after any sequence of split_at, shrink, freeze,
\* view, advance and try_reclaim.
C33_RangeInBlock ==
    \A r \in C32_Refs : 0 <= r.start /\ r.start <= r.end /\ r.end <= size

\* advance(1) has moved the start of a frozen right half to the last byte
C33_Witness ==
    /\ last.op = "reader_advance" /\ last.outcome = "ok"
    /\ last.arg = <<1>>
    /\ last.pre[1].inner.start = 1
    /\ last.post[1].inner.start = 2 /\ last.post[1].inner.end = size
    /\ last.post[1] \in BagToSet(bufs)

\* what C34 states of split_at(offset) on the handle self with the count word w
C34_Stated(self, offset, w) ==
    IF offset = 0
    THEN [self |-> self, new |-> BufferRef_default, word |-> w, panic |-> FALSE]
    ELSE IF offset = self.end - self.start
    THEN [self |-> BufferRef_default, new |-> self, word |-> w, panic |-> FALSE]
    ELSE [self |-> [self EXCEPT !.start = self.start + offset],
          new |-> [self EXCEPT !.end = self.start + offset, !.tail = FALSE],
          word |-> w + 2, panic |-> FALSE]

\* C34: BufferRef::split_at(offset) on a handle [start, end), start > 0
\* included, with 0 <= offset <= end - start: offset = 0 returns the sentinel
\* and leaves self; offset = end - start returns the whole handle and leaves the
\* sentinel; otherwise it returns the non-tail handle [start, start + offset),
\* self becomes [start + offset, end) with its tail flag, and the strong count
\* rises by one. Observed at every call ArcBufMut::split_at makes (0 < at < filled).
C34_SplitAt ==
    (last.op = "split_at" /\ 0 < last.arg[1] /\ last.arg[1] < last.pre[1].filled
        /\ last.arg[1] <= BufferRef_len(last.pre[1].inner)) =>
        LET stated == C34_Stated(last.pre[1].inner, last.arg[1], last.word)
        IN  /\ BufferRef_split_at(last.pre[1].inner, last.arg[1], last.word) = stated
            /\ last.outcome = "ok"
            /\ last.post[1].inner = stated.self
            /\ last.ret[1].inner = stated.new
            /\ word = stated.word

\* C35: fully_initialize() on a tail buffer sets the initialized boundary to
\* end, zeroes every byte from the previous boundary up to end, leaves every
\* byte below the previous boundary and leaves filled; on a buffer that is not
\* the tail it changes nothing.
C35_FullyInitializeStep ==
    last'.op = "fully_initialize" =>
        LET b == last'.pre[1]
        IN  /\ b \in BagToSet(muts)
            /\ muts' = muts
            /\ last'.post[1] = b
            /\ last'.outcome = "ok"
            /\ b.inner.tail =>
                  /\ initialized' = b.inner.end
                  /\ \A i \in DOMAIN mem :
                        mem'[i] = IF i > initialized /\ i <= b.inner.end THEN 0 ELSE mem[i]
            /\ ~b.inner.tail => initialized' = initialized /\ mem' = mem

C35_FullyInitialize == [][C35_FullyInitializeStep]_vars

\* the tail was fully initialized behind a byte written through the Writer
C35_Witness ==
    /\ last.op = "fully_initialize" /\ last.outcome = "ok"
    /\ last.pre[1].inner.tail
    /\ last.pre[1].filled >= 1
    /\ last.initialized >= 1 /\ last.initialized < last.pre[1].inner.end
    /\ initialized = last.pre[1].inner.end
    /\ mem[last.pre[1].inner.start + 1] = 1
    /\ mem[last.pre[1].inner.end] = 0

\* C36: set_filled_to(to) raises filled: after every call that does not
\* panic, len() is at least what it was before the call.
C36_FilledRaised ==
    (last.op = "set_filled_to" /\ last.outcome # "panic") =>
        ArcBufMut_len(last.post[1]) >= ArcBufMut_len(last.pre[1])

\* C36 (amended): set_filled_to(to) sets filled to its argument, in either
\* direction: after every call that does not panic len() = to, which is below
\* the len() before exactly when to is; the capacity is unchanged.
C36_FilledSet ==
    (last.op = "set_filled_to" /\ last.outcome # "panic") =>
        /\ ArcBufMut_len(last.post[1]) = last.arg[1]
        /\ ArcBufMut_len(last.post[1]) < ArcBufMut_len(last.pre[1])
              <=> last.arg[1] < ArcBufMut_len(last.pre[1])
        /\ ArcBufMut_capacity(last.post[1]) = ArcBufMut_capacity(last.pre[1])

\* set_filled_to has lowered a filled buffer
C36_Witness ==
    /\ last.op = "set_filled_to" /\ last.outcome = "ok"
    /\ ArcBufMut_len(last.pre[1]) = 2
    /\ last.arg[1] = 1
    /\ ArcBufMut_len(last.post[1]) = 1
    /\ last.post[1] \in BagToSet(muts)

\* C37: of the try_reclaim() calls that threads make concurrently on one
\* Reclaim while no strong handle exists exactly one returns Some: once a call
\* has returned Some, a call made by another thread at that moment returns
\* None, and two buffers obtained from try_reclaim are never live together.
C37_OneSome ==
    (last.op = "try_reclaim" /\ last.outcome = "some") =>
        /\ Reclaim_try_reclaim(size, word).ret = <<>>
        /\ ~Reclaim_can_reclaim(size, word)
        /\ StrongHandles = 1

\* C37 (amended): on an allocation of non-zero size try_reclaim() returns Some
\* exactly when the count word is 1 (no strong handle), the word is then 3 and
\* the returned buffer is the only live handle, so a call made by another
\* thread at that moment returns None; a call that returns None changes
\* nothing. On a zero-sized allocation every call returns Some with a Static
\* empty buffer.
C37_OneSomePerAllocation ==
    last.op = "try_reclaim" =>
        /\ size # 0 =>
              /\ last.outcome = "some" <=> last.word = 1
              /\ last.outcome = "some" =>
                    /\ word = 3
                    /\ StrongHandles = 1
                    /\ last.ret[1] \in BagToSet(muts)
                    /\ Reclaim_try_reclaim(size, word).ret = <<>>
                    /\ ~Reclaim_can_reclaim(size, word)
              /\ last.outcome = "none" =>
                    /\ word = last.word
                    /\ StrongHandles >= 1
                    /\ last.ret = <<>>
        /\ size = 0 =>
              /\ last.outcome = "some"
              /\ last.ret[1] = ArcBufMut_default
              /\ word = last.word
              /\ Reclaim_try_reclaim(size, word).ret # <<>>

\* a call has returned Some on an allocation without strong handles, and a
\* call made by another thread at this moment returns None
C37_Witness ==
    /\ last.op = "try_reclaim" /\ last.outcome = "some"
    /\ size = MaxCap /\ reclaim
    /\ last.word = 1 /\ word = 3
    /\ muts = One(last.ret[1]) /\ bufs = EmptyBag
    /\ Reclaim_try_reclaim(size, word).ret = <<>>

\* C38: for every Writer, 0 <= position <= filled <= capacity holds after
\* Writer::new and after every Writer operation, successful or failed (extend,
\* advance, view_mut, peek_view_mut, rest_mut, peek_rest_mut, peek_chunk_mut),
\* so filled - position never underflows.
C38_WriterBounds ==
    \A w \in Range(writer) :
        /\ 0 <= w.position
        /\ w.position <= w.buf.filled
        /\ w.buf.filled <= ArcBufMut_capacity(w.buf)

\* the Reclaim is outstanding and every handle of the allocation has been dropped
C39_AllHandlesDropped == reclaim /\ size # 0 /\ StrongHandles = 0

C39_Reclaimable ==
    C39_AllHandlesDropped =>
        /\ Reclaim_can_reclaim(size, word)
        /\ Reclaim_try_reclaim(size, word).ret
              = <<[inner |-> [meta |-> TRUE, start |-> 0, end |-> size, tail |-> TRUE],
                   filled |-> 0]>>
        /\ deallocated = 0 /\ pendingFree = 0

\* C39: the reclaim cycle is repeatable: while the Reclaim is outstanding,
\* whenever the buffer obtained from try_reclaim() and every handle derived
\* from it have been dropped, can_reclaim() is true again and the next
\* try_reclaim() succeeds, any number of times, over the same allocation with
\* no allocation or deallocation in between.
C39_Repeatable ==
    /\ [](C39_Reclaimable /\ (reclaim => deallocated = 0 /\ pendingFree = 0))
    /\ C39_AllHandlesDropped ~>
          (/\ last.op = "try_reclaim" /\ last.outcome = "some"
           /\ last.word = 1
           /\ StrongHandles = 1 /\ deallocated = 0)

\* the last handle of a session that initialized bytes has been dropped
C39_Witness ==
    /\ C39_AllHandlesDropped
    /\ last.op \in {"drop_mut", "drop_buf"}
    /\ initialized >= 1
    /\ Reclaim_can_reclaim(size, word)

\* C40: a successful try_reclaim() does not reset the initialization cursor:
\* MetaData.initialized is after the call what it was before, so the reclaimed
\* buffer has len() = 0 while its initialized() region is as long as the cursor
\* the previous session left, and set_filled_to up to that value succeeds
\* without any new write.
C40_ReclaimStep ==
    (last'.op = "try_reclaim" /\ last'.outcome = "some" /\ size # 0) =>
        LET b == last'.ret[1]
            region == ArcBufMut_initialized(b, initialized', mem')
        IN  /\ initialized' = initialized
            /\ mem' = mem
            /\ ArcBufMut_len(b) = 0
            /\ ~region.panic
            /\ Len(region.bytes) = initialized
            /\ \A i \in 1..initialized : region.bytes[i] = mem[i] /\ mem[i] # Uninit
            /\ \A to \in 0..initialized :
                  LET r == ArcBufMut_set_filled_to(b, to, initialized')
                  IN  ~r.panic /\ ArcBufMut_len(r.self) = to
            /\ ArcBufMut_set_filled_to(b, initialized + 1, initialized').panic

C40_CursorSurvivesReclaim == [][C40_ReclaimStep]_vars

\* a buffer has been reclaimed with the cursor of the previous session inside it
C40_Witness ==
    /\ last.op = "try_reclaim" /\ last.outcome = "some"
    /\ last.initialized >= 1 /\ last.initialized < size
    /\ initialized = last.initialized
    /\ last.ret[1].filled = 0
    /\ Len(ArcBufMut_initialized(last.ret[1], initialized, mem).bytes) = initialized
    /\ last.ret[1] \in BagToSet(muts)

====
